---- MODULE Spec2Model ----
(***************************************************************************)
(* A model of the transplacer AssetCache (src/transplacer.go, the second   *)
(* revision of the file, lines 543-1125): the store, the generation        *)
(* pipeline, the expiry sweeper, the file watcher and Asset.Serve.         *)
(*                                                                         *)
(* Strings are sequences of one-character strings, so that path.Clean,     *)
(* strings.HasPrefix and filepath.Ext are computed character by character. *)
(***************************************************************************)
EXTENDS Integers, Sequences, FiniteSets, TLC

(***************************************************************************)
(* Strings and paths                                                       *)
(***************************************************************************)

\* strings.HasPrefix(s, prefix)
HasPrefix(s, prefix) ==
    /\ Len(s) >= Len(prefix)
    /\ SubSeq(s, 1, Len(prefix)) = prefix

\* The index of the first "/" of s at or after position i, or Len(s)+1.
RECURSIVE NextSlash(_, _)
NextSlash(s, i) ==
    IF i > Len(s) THEN Len(s) + 1
    ELSE IF s[i] = "/" THEN i
    ELSE NextSlash(s, i + 1)

\* The path elements of s from position i on: the pieces between slashes.
RECURSIVE Elements(_, _)
Elements(s, i) ==
    IF i > Len(s) + 1 THEN << >>
    ELSE LET j == NextSlash(s, i)
         IN  << SubSeq(s, i, j - 1) >> \o Elements(s, j + 1)

\* The element loop of path.Clean: out is the cleaned prefix built so far.
RECURSIVE CleanElements(_, _, _)
CleanElements(elems, out, rooted) ==
    IF elems = << >> THEN out
    ELSE LET e    == Head(elems)
             rest == Tail(elems)
         IN  IF e = << >> \/ e = << "." >>
             THEN CleanElements(rest, out, rooted)
             ELSE IF e = << ".", "." >>
             THEN IF out # << >> /\ out[Len(out)] # << ".", "." >>
                  THEN CleanElements(rest, SubSeq(out, 1, Len(out) - 1), rooted)
                  ELSE IF rooted
                  THEN CleanElements(rest, out, rooted)
                  ELSE CleanElements(rest, Append(out, e), rooted)
             ELSE CleanElements(rest, Append(out, e), rooted)

\* The elements joined by "/".
RECURSIVE JoinElements(_)
JoinElements(elems) ==
    IF elems = << >> THEN << >>
    ELSE IF Len(elems) = 1 THEN elems[1]
    ELSE elems[1] \o << "/" >> \o JoinElements(Tail(elems))

\* path.Clean / filepath.Clean: the shortest equivalent path.
Clean(s) ==
    IF s = << >> THEN << "." >>
    ELSE LET rooted == s[1] = "/"
             out    == CleanElements(Elements(s, 1), << >>, rooted)
         IN  IF rooted THEN << "/" >> \o JoinElements(out)
             ELSE IF out = << >> THEN << "." >>
             ELSE JoinElements(out)

\* filepath.Join(a, b): the non-empty elements joined by "/" and cleaned.
Join(a, b) ==
    IF a = << >> /\ b = << >> THEN << >>
    ELSE IF a = << >> THEN Clean(b)
    ELSE IF b = << >> THEN Clean(a)
    ELSE Clean(a \o << "/" >> \o b)

\* filepath.Ext: the suffix from the last "." of the last element on.
RECURSIVE ExtFrom(_, _)
ExtFrom(s, i) ==
    IF i < 1 THEN << >>
    ELSE IF s[i] = "/" THEN << >>
    ELSE IF s[i] = "." THEN SubSeq(s, i, Len(s))
    ELSE ExtFrom(s, i - 1)

Ext(s) == ExtFrom(s, Len(s))

\* filepath.Base for a cleaned path: the last element (os.FileInfo.Name).
RECURSIVE BaseFrom(_, _)
BaseFrom(s, i) ==
    IF i < 1 THEN s
    ELSE IF s[i] = "/" THEN SubSeq(s, i + 1, Len(s))
    ELSE BaseFrom(s, i - 1)

Base(s) == BaseFrom(s, Len(s))

IndexHtml == << "i", "n", "d", "e", "x", ".", "h", "t", "m", "l" >>
DotHtml   == << ".", "h", "t", "m", "l" >>

\* PrepPath joins a host path with a clean file path.
PrepPath(host, file) ==
    LET cleaned == Clean(file)
        joined  == IF ~HasPrefix(cleaned, host) THEN Join(host, cleaned) ELSE cleaned
    IN  IF joined[Len(joined)] = "/" THEN Join(joined, IndexHtml)
        ELSE IF Ext(joined) = << >> THEN joined \o DotHtml
        ELSE joined

(***************************************************************************)
(* Configuration, the file system and the clock                            *)
(***************************************************************************)

\* Bounds of the model.
MaxTime   == 3      \* the clock runs from 1 to MaxTime
MaxVer    == 1      \* a modifiable file is rewritten at most MaxVer times
MaxAssets == 2      \* at most MaxAssets generations are started

\* AssetCache.Dir, a.Expire and a.Watch: the configuration of the cache.
Dir    == << "/", "d" >>
Expire == 1
Watch  == TRUE

\* a.Index, a.NoIndex and a.CacheControl as Make leaves them.
Index        == PrepPath(Dir, IndexHtml)
NoIndex      == FALSE
CacheControl == "private, must-revalidate"

\* The regular files on disk: Dir/index.html, Dir/a.html, Dir/s.d/index.html
\* and, outside the cache directory, /x.html. Dir, Dir/s.d and / are
\* directories.
FIndex == Dir \o << "/" >> \o IndexHtml
FPage  == Dir \o << "/", "a" >> \o DotHtml
FOut   == << "/", "x" >> \o DotHtml
FSub   == Dir \o << "/", "s", ".", "d", "/" >> \o IndexHtml
FilePaths  == { FIndex, FPage, FOut, FSub }
DirPaths   == { Dir, << "/" >>, Dir \o << "/", "s", ".", "d" >> }
Modifiable == { FPage }

\* The names handed to Get, Gen, Del, Update and ServeFileDirect: the root,
\* a page without its extension and a name that climbs out of Dir.
NRoot  == << "/" >>
NPage  == << "a" >>
NIndex == << "i", "n", "d", "e", "x" >>
NClimb == << ".", ".", "/", "x" >>
NNone  == << "/", "z" >>
NSub   == << "s", ".", "d" >>
Names  == { NRoot, NPage }

\* The paths the operations of the model are called with: the names, the
\* files, and what PrepPath makes of them.
RECURSIVE PathClosure(_)
PathClosure(S) ==
    LET T == S \cup { PrepPath(Dir, x) : x \in S }
    IN  IF T = S THEN S ELSE PathClosure(T)

Paths == PathClosure({ NRoot, NPage, NIndex, NClimb, NNone, NSub } \cup FilePaths)

\* The bytes of version v of the file at path p.
FileBytes(p, v) == << Len(p), v >>

\* The letters, in upper and in lower case.
UpperLetters ==
    << "A", "B", "C", "D", "E", "F", "G", "H", "I", "J", "K", "L", "M",
        "N", "O", "P", "Q", "R", "S", "T", "U", "V", "W", "X", "Y", "Z" >>
LowerLetters ==
    << "a", "b", "c", "d", "e", "f", "g", "h", "i", "j", "k", "l", "m",
        "n", "o", "p", "q", "r", "s", "t", "u", "v", "w", "x", "y", "z" >>

\* unicode lower case of one character.
LowerChar(c) ==
    IF \E i \in 1..26 : UpperLetters[i] = c
    THEN LowerLetters[CHOOSE i \in 1..26 : UpperLetters[i] = c]
    ELSE c

\* unicode upper case of one character.
UpperChar(c) ==
    IF \E i \in 1..26 : LowerLetters[i] = c
    THEN UpperLetters[CHOOSE i \in 1..26 : LowerLetters[i] = c]
    ELSE c

\* strings.ToLower
ToLower(s) == [i \in 1..Len(s) |-> LowerChar(s[i])]

\* Compressable - list of compressable file types.
Compressable ==
    { << >>, << ".", "t", "x", "t" >>, << ".", "h", "t", "m" >>, DotHtml,
      << ".", "c", "s", "s" >>, << ".", "t", "o", "m", "l" >>, << ".", "p", "h", "p" >>,
      << ".", "j", "s" >>, << ".", "j", "s", "o", "n" >>, << ".", "m", "d" >>,
      << ".", "m", "d", "o", "w", "n" >>, << ".", "x", "m", "l" >>, << ".", "s", "v", "g" >>,
      << ".", "g", "o" >>, << ".", "c", "g", "i" >>, << ".", "p", "y" >>, << ".", "p", "l" >>,
      << ".", "a", "s", "p", "x" >>, << ".", "a", "s", "p" >> }

\* StringsContainCI reports whether the list contains a match regardless of case.
StringsContainCI(list, match) ==
    \E item \in list : ToLower(item) = ToLower(match)

\* mime.TypeByExtension for the extensions of the model.
TypeByExtension(ext) ==
    IF ToLower(ext) = DotHtml THEN "text/html; charset=utf-8"
    ELSE IF ToLower(ext) = << ".", "c", "s", "s" >> THEN "text/css; charset=utf-8"
    ELSE ""

\* gzipBytes: the gzip member of the content (magic bytes, payload, ISIZE).
gzipBytes(content) == << 31, 139 >> \o content \o << Len(content) >>

\* xxhash Sum64 of a byte sequence, as a polynomial fold (kept to 20 bits,
\* within the integers of the checker).
RECURSIVE Sum64(_)
Sum64(b) ==
    IF b = << >> THEN 7
    ELSE (Sum64(SubSeq(b, 1, Len(b) - 1)) * 257 + b[Len(b)] + 1) % (2^20)

\* fmt.Sprintf(`"%x"`, base64(sum)): the quoted validator of a digest.
EtagOf(b) == << "\"", Sum64(b), "\"" >>

\* AvoidPushing - list of file extentions to skip over when building an http2
\* push list.
AvoidPushing ==
    { << >>, << ".", "p", "n", "g" >>, << ".", "w", "e", "b", "p" >>, << ".", "t", "x", "t" >> }

\* A node of the tree html.Parse returns: an element with its attributes in
\* the order of the document and its children, or a text.
Element(data, attr, children) ==
    [ Type |-> "ElementNode", Data |-> data, Attr |-> attr, Child |-> children ]

Attribute(key, val) == [ Key |-> key, Val |-> val ]

Text == [ Type |-> "TextNode", Data |-> "", Attr |-> << >>, Child |-> << >> ]

\* The tree of a document with the given elements in its head and its body.
Document(head, body) ==
    [ Type |-> "DocumentNode", Data |-> "", Attr |-> << >>,
      Child |-> << Element("html", << >>,
                       << Element("head", << >>, head), Element("body", << >>, body) >>) >> ]

\* html.Parse on the bodies of the files of the model: they are text without
\* tags, which the parser puts into the body of a document.
Parse(content) == Document(<< >>, << Text >>)

AnyPath(p) == TRUE

\* path.IsAbs
IsAbs(p) == Len(p) > 0 /\ p[1] = "/"

KeyRel  == << "r", "e", "l" >>
KeyHref == << "h", "r", "e", "f" >>
KeySrc  == << "s", "r", "c" >>
Preload == << "p", "r", "e", "l", "o", "a", "d" >>
Icon    == << "i", "c", "o", "n" >>

\* LinkLoop of queryPushables over the attributes of a link element, with
\* relChecked and target as they are before the first of attrs.
RECURSIVE LinkLoop(_, _, _)
LinkLoop(attrs, relChecked, target) ==
    IF attrs = << >> THEN [ avoid |-> FALSE, target |-> target ]
    ELSE LET a   == Head(attrs)
             key == ToLower(a.Key)
         IN  IF key = KeyRel
             THEN IF ToLower(a.Val) \in { Preload, Icon }
                  THEN [ avoid |-> TRUE, target |-> target ]
                  ELSE LinkLoop(Tail(attrs), TRUE, target)
             ELSE IF key = KeyHref
             THEN IF relChecked THEN [ avoid |-> FALSE, target |-> a.Val ]
                  ELSE LinkLoop(Tail(attrs), relChecked, a.Val)
             ELSE LinkLoop(Tail(attrs), relChecked, target)

\* ImgScriptLoop of queryPushables: the value of the first src attribute.
RECURSIVE ImgScriptLoop(_)
ImgScriptLoop(attrs) ==
    IF attrs = << >> THEN [ avoid |-> FALSE, target |-> << >> ]
    ELSE IF ToLower(Head(attrs).Key) = KeySrc
    THEN [ avoid |-> FALSE, target |-> Head(attrs).Val ]
    ELSE ImgScriptLoop(Tail(attrs))

\* What f of queryPushables appends to the list for the node n itself.
Visit(n) ==
    IF n.Type # "ElementNode" THEN << >>
    ELSE LET found == IF n.Data = "link" THEN LinkLoop(n.Attr, FALSE, << >>)
                      ELSE IF n.Data \in { "img", "script" } THEN ImgScriptLoop(n.Attr)
                      ELSE [ avoid |-> FALSE, target |-> << >> ]
             avoid == found.avoid \/ Ext(found.target) \in AvoidPushing
         IN  IF ~avoid /\ IsAbs(found.target) THEN << found.target >> ELSE << >>

\* f of queryPushables: the node, then its children from first to last.
RECURSIVE Walk(_)
RECURSIVE WalkChildren(_)
Walk(n) == Visit(n) \o WalkChildren(n.Child)
WalkChildren(children) ==
    IF children = << >> THEN << >> ELSE Walk(Head(children)) \o WalkChildren(Tail(children))

\* No document is being walked.
NoDocument == [ pc |-> "idle", tree |-> Parse(<< >>), list |-> << >> ]

\* queryPushables: the list for the parsed content, never nil.
NilList == [nil |-> TRUE, list |-> << >>]
queryPushables(content) == [nil |-> FALSE, list |-> Walk(Parse(content))]

(***************************************************************************)
(* Ctx.WriteContent of package mak: conditional requests and byte ranges.   *)
(* Header values that the code inspects character by character are          *)
(* sequences of one-character strings, like the paths.                      *)
(***************************************************************************)

\* The longest content WriteContent is given.
MaxContent == 3

\* A nil io.ReadSeeker.
NilContent == [ nil |-> TRUE, bytes |-> << >> ]

\* bytes.NewReader(b)
NewReader(b) == [ nil |-> FALSE, bytes |-> b ]

\* The contents: nil, or a reader of the first n bytes of a text.
Contents ==
    { NilContent } \cup { NewReader(SubSeq(<< 65, 66, 67, 68, 69, 70 >>, 1, n)) : n \in 0..MaxContent }

Min(a, b) == IF a < b THEN a ELSE b

RECURSIVE TrimLeft(_, _)
TrimLeft(s, cut) ==
    IF s # << >> /\ s[1] \in cut THEN TrimLeft(Tail(s), cut) ELSE s

RECURSIVE TrimRight(_, _)
TrimRight(s, cut) ==
    IF s # << >> /\ s[Len(s)] \in cut THEN TrimRight(SubSeq(s, 1, Len(s) - 1), cut) ELSE s

\* textproto.TrimString: leading and trailing spaces and tabs removed.
TrimString(s) == TrimRight(TrimLeft(s, { " ", "\t" }), { " ", "\t" })

\* strings.TrimSpace: leading and trailing white space removed.
TrimSpace(s) ==
    TrimRight(TrimLeft(s, { " ", "\t", "\n", "\r", "\f" }), { " ", "\t", "\n", "\r", "\f" })

\* strings.TrimPrefix
TrimPrefix(s, prefix) ==
    IF HasPrefix(s, prefix) THEN SubSeq(s, Len(prefix) + 1, Len(s)) ELSE s

\* strings.Index(s, ch) for a one-character ch, counted from 0; -1 if absent.
stringsIndex(s, ch) ==
    IF \E i \in 1..Len(s) : s[i] = ch
    THEN (CHOOSE i \in 1..Len(s) : s[i] = ch /\ \A j \in 1..(i - 1) : s[j] # ch) - 1
    ELSE -1

\* strings.Split(s, ch) for a one-character ch.
RECURSIVE Split(_, _)
Split(s, ch) ==
    LET i == stringsIndex(s, ch)
    IN  IF i < 0 THEN << s >>
        ELSE << SubSeq(s, 1, i) >> \o Split(SubSeq(s, i + 2, Len(s)), ch)

DigitChars == << "0", "1", "2", "3", "4", "5", "6", "7", "8", "9" >>

IsDigit(ch) == \E d \in 1..10 : DigitChars[d] = ch

DigitVal(ch) == (CHOOSE d \in 1..10 : DigitChars[d] = ch) - 1

RECURSIVE Atoi(_)
Atoi(s) ==
    IF s = << >> THEN 0
    ELSE 10 * Atoi(SubSeq(s, 1, Len(s) - 1)) + DigitVal(s[Len(s)])

\* strconv.ParseInt(s, 10, 64): an optional sign and at least one digit.
ParseInt(s) ==
    LET signed == s # << >> /\ s[1] \in { "+", "-" }
        digits == IF signed THEN Tail(s) ELSE s
    IN  IF digits = << >> \/ \E i \in 1..Len(digits) : ~IsDigit(digits[i])
        THEN [err |-> TRUE, val |-> 0]
        ELSE [err |-> FALSE,
              val |-> IF signed /\ s[1] = "-" THEN 0 - Atoi(digits) ELSE Atoi(digits)]

\* strconv.FormatInt(n, 10)
RECURSIVE FormatInt(_)
FormatInt(n) ==
    IF n < 0 THEN << "-" >> \o FormatInt(0 - n)
    ELSE IF n < 10 THEN << DigitChars[n + 1] >>
    ELSE FormatInt(n \div 10) \o << DigitChars[(n % 10) + 1] >>

\* The characters allowed inside an ETag: 0x21, 0x23..0x7E and 0x80 up. Of
\* the characters of the model only the space, the tab and the quote are not.
ETagChar(ch) == ch \notin { " ", "\t", "\n", "\r", "\f", "\"" }

\* The index of the closing quote of the ETag whose text starts at s[i], or
\* 0 if a character that is not allowed comes first or the text ends.
RECURSIVE ETagEnd(_, _)
ETagEnd(s, i) ==
    IF i > Len(s) THEN 0
    ELSE IF s[i] = "\"" THEN i
    ELSE IF ETagChar(s[i]) THEN ETagEnd(s, i + 1)
    ELSE 0

\* scanETag: the syntactically valid ETag at the start of s and the rest, or
\* two empty strings.
scanETag(s0) ==
    LET s     == TrimString(s0)
        start == IF HasPrefix(s, << "W", "/" >>) THEN 2 ELSE 0
    IN  IF Len(s) - start < 2 \/ s[start + 1] # "\""
        THEN [eTag |-> << >>, remain |-> << >>]
        ELSE LET e == ETagEnd(s, start + 2)
             IN  IF e = 0 THEN [eTag |-> << >>, remain |-> << >>]
                 ELSE [eTag |-> SubSeq(s, 1, e), remain |-> SubSeq(s, e + 1, Len(s))]

eTagStrongMatch(a, b) == a = b /\ a # << >> /\ a[1] = "\""

eTagWeakMatch(a, b) == TrimPrefix(a, << "W", "/" >>) = TrimPrefix(b, << "W", "/" >>)

\* An HTTP date is written d followed by its second; anything else does not
\* parse.
HttpDate(t) == << "d" >> \o FormatInt(t)

\* http.ParseTime: the second of the date, or the zero time (0), which is
\* before every date.
ParseTime(v) ==
    IF Len(v) >= 2 /\ v[1] = "d" /\ ~ParseInt(Tail(v)).err /\ IsDigit(v[2])
    THEN ParseInt(Tail(v)).val
    ELSE 0

\* http.DetectContentType for data that carries no signature: binary if it
\* holds a control character that text does not, text otherwise.
DetectContentType(b) ==
    IF \E i \in 1..Len(b) : b[i] < 32 /\ b[i] \notin { 9, 10, 12, 13, 27 }
    THEN "application/octet-stream"
    ELSE "text/plain; charset=utf-8"

\* The header of a request without conditions and ranges.
NoRequestHeader ==
    [ IfMatch |-> << >>, IfUnmodifiedSince |-> << >>, IfNoneMatch |-> << >>,
      IfModifiedSince |-> << >>, Range |-> << >>, IfRange |-> << >>,
      AcceptRanges |-> "" ]

\* c.W.Header() with nothing set.
NoHeader ==
    [ Etag |-> << >>, LastModified |-> << >>, ContentType |-> "",
      ContentLength |-> << >>, ContentRange |-> << >>, AcceptRanges |-> "",
      TransferEncoding |-> "", StrictTransportSecurity |-> "" ]

\* c.W before WriteHeader: no status line, no header and no body sent.
NoWrite == [ code |-> 0, header |-> NoHeader, body |-> << >> ]

\* The Ctx that ServeHTTP makes for request r. The fields content and set
\* keep the content the handler passes to WriteContent and the header the
\* handler has set.
NewCtx(r) ==
    [ pc |-> "route", R |-> r, H |-> NoHeader, Status |-> 200,
      ContentLength |-> 0, Written |-> FALSE, W |-> NoWrite,
      err |-> "", panic |-> FALSE, content |-> NilContent, set |-> NoHeader ]

\* Whether net/http sends a body with the status.
bodyAllowedForStatus(status) ==
    ~(status \in 100..199 \/ status = 204 \/ status = 304)

\* Length of the boundary of a multipart.Writer.
BoundaryLen == 60

contentRangeExclusive(r, size) ==
    << "b", "y", "t", "e", "s", " " >> \o FormatInt(r.start) \o << "-" >>
        \o FormatInt(r.start + r.length) \o << "/" >> \o FormatInt(size)

\* httpRange.contentRange
contentRange(r, size) ==
    << "b", "y", "t", "e", "s", " " >> \o FormatInt(r.start) \o << "-" >>
        \o FormatInt(r.start + r.length - 1) \o << "/" >> \o FormatInt(size)

\* The bytes a multipart.Writer writes around the part of range ra: the
\* boundary line, the Content-Range and Content-Type lines and an empty line.
PartFraming(ra, first, ct, size) ==
    (IF first THEN 2 + BoundaryLen + 2 ELSE 2 + 2 + BoundaryLen + 2)
        + (Len("Content-Range: ") + Len(contentRange(ra, size)) + 2)
        + (Len("Content-Type: ") + Len(ct) + 2)
        + 2

RECURSIVE SumFraming(_, _, _, _)
SumFraming(ranges, first, ct, size) ==
    IF ranges = << >> THEN 2 + 2 + BoundaryLen + 2 + 2
    ELSE PartFraming(Head(ranges), first, ct, size)
             + SumFraming(Tail(ranges), FALSE, ct, size)

RECURSIVE SumLength(_)
SumLength(ranges) ==
    IF ranges = << >> THEN 0 ELSE Head(ranges).length + SumLength(Tail(ranges))

BadRange == [ err |-> TRUE, ranges |-> << >>, noOverlap |-> FALSE ]

\* The loop of WriteContent over the range specifiers of the Range header.
RECURSIVE ParseRanges(_, _, _, _)
ParseRanges(specs, size, ranges, noOverlap) ==
    IF specs = << >>
    THEN [ err |-> FALSE, ranges |-> ranges, noOverlap |-> noOverlap ]
    ELSE LET ra    == TrimSpace(Head(specs))
             rest  == Tail(specs)
             i     == stringsIndex(ra, "-")
             start == TrimSpace(SubSeq(ra, 1, i))
             end   == TrimSpace(SubSeq(ra, i + 2, Len(ra)))
             s     == ParseInt(start)
             e     == ParseInt(end)
         IN  IF ra = << >> THEN ParseRanges(rest, size, ranges, noOverlap)
             ELSE IF i < 0 THEN BadRange
             ELSE IF start = << >>
             THEN IF e.err THEN BadRange
                  ELSE LET n == IF e.val > size THEN size ELSE e.val
                       IN  ParseRanges(rest, size,
                               Append(ranges, [start |-> size - n, length |-> size - (size - n)]),
                               noOverlap)
             ELSE IF s.err \/ s.val < 0 THEN BadRange
             ELSE IF s.val >= size THEN ParseRanges(rest, size, ranges, TRUE)
             ELSE IF end = << >>
             THEN ParseRanges(rest, size,
                      Append(ranges, [start |-> s.val, length |-> size - s.val]), noOverlap)
             ELSE IF e.err \/ s.val > e.val THEN BadRange
             ELSE LET last == IF e.val >= size THEN size - 1 ELSE e.val
                  IN  ParseRanges(rest, size,
                          Append(ranges, [start |-> s.val, length |-> last - s.val + 1]),
                          noOverlap)

\* The loop of WriteContent over the If-Match header: whether a tag matched.
RECURSIVE IfMatchMatched(_, _)
IfMatchMatched(im0, et) ==
    LET im == TrimString(im0)
    IN  IF im = << >> THEN FALSE
        ELSE IF im[1] = "," THEN IfMatchMatched(Tail(im), et)
        ELSE IF im[1] = "*" THEN TRUE
        ELSE LET t == scanETag(im)
             IN  IF t.eTag = << >> THEN FALSE
                 ELSE IF eTagStrongMatch(t.eTag, et) THEN TRUE
                 ELSE IfMatchMatched(t.remain, et)

\* The loop of WriteContent over the If-None-Match header: "none" if no tag
\* matched, "some" if one did, "panic" if the loop indexes an empty string.
\* After a comma is dropped the loop goes on to inm[0] without looking at
\* the length again.
RECURSIVE IfNoneMatchLoop(_, _)
IfNoneMatchLoop(inm0, et) ==
    LET trimmed == TrimString(inm0)
        inm     == IF trimmed # << >> /\ trimmed[1] = "," THEN Tail(trimmed) ELSE trimmed
    IN  IF trimmed = << >> THEN "none"
        ELSE IF inm = << >> THEN "panic"
        ELSE IF inm[1] = "*" THEN "some"
        ELSE LET t == scanETag(inm)
             IN  IF t.eTag = << >> THEN "none"
                 ELSE IF eTagWeakMatch(t.eTag, et) THEN "some"
                 ELSE IfNoneMatchLoop(t.remain, et)

\* What the variable reader of WriteContent holds for a content.
ReaderOf(content) == IF content.nil THEN "nil" ELSE "content"

\* The function that WriteContent defers, run with canWrite set: it completes
\* the header, writes the status line and copies ContentLength bytes of the
\* reader to c.W. pos is the read offset of the content and piped the bytes
\* the pipe of a multi-range response delivers.
WriteDeferred(c, content, reader, pos, piped) ==
    LET h1      == IF c.R.TLS /\ c.H.StrictTransportSecurity = ""
                   THEN [c.H EXCEPT !.StrictTransportSecurity = "max-age=31536000"]
                   ELSE c.H
        h2      == IF reader # "nil" /\ c.Status >= 200 /\ c.Status < 300
                       /\ c.R.Header.AcceptRanges = ""
                   THEN [h1 EXCEPT !.AcceptRanges = "bytes"]
                   ELSE h1
        measure == reader = "content" /\ c.ContentLength = 0
        length  == IF measure THEN Len(content.bytes) ELSE c.ContentLength
        offset  == IF measure THEN 0 ELSE pos
        setCL   == /\ length >= 0
                   /\ h2.ContentLength = << >>
                   /\ h2.TransferEncoding = ""
                   /\ c.Status >= 200 /\ c.Status # 204
                   /\ (c.Status >= 300 \/ c.R.Method # "CONNECT")
        h3      == IF setCL THEN [h2 EXCEPT !.ContentLength = FormatInt(length)] ELSE h2
        n       == IF setCL THEN length ELSE 0
        avail   == IF reader = "content" THEN SubSeq(content.bytes, offset + 1, Len(content.bytes))
                   ELSE IF reader = "pipe" THEN piped
                   ELSE << >>
        copied  == IF c.R.Method # "HEAD" /\ reader # "nil"
                   THEN SubSeq(avail, 1, Min(n, Len(avail)))
                   ELSE << >>
    IN  [c EXCEPT !.H = h3,
                  !.ContentLength = n,
                  !.W = [ code |-> c.Status, header |-> h3,
                          body |-> IF bodyAllowedForStatus(c.Status) THEN copied ELSE << >> ],
                  !.Written = TRUE]

BytesEq == << "b", "y", "t", "e", "s", "=" >>

UnsatisfiableBare(c, size) == [c EXCEPT !.Status = 416, !.err = "ErrBadRange"]

\* The specified ranges did not overlap with the content: ErrBadRange.Envoy
\* with Content-Range: bytes */size.
Unsatisfiable(c, size) ==
    [c EXCEPT !.H.ContentRange = << "b", "y", "t", "e", "s", " ", "*", "/" >> \o FormatInt(size),
              !.Status = 416, !.err = "ErrBadRange"]

\* WriteContent from the content type on: content is not nil and no
\* condition of the request decided the response.
WriteRanges(c, content) ==
    LET ct     == IF c.H.ContentType = ""
                  THEN DetectContentType(SubSeq(content.bytes, 1, Min(512, Len(content.bytes))))
                  ELSE c.H.ContentType
        size   == Len(content.bytes)
        c1     == [c EXCEPT !.H.ContentType = ct, !.ContentLength = size]
        rh     == c.R.Header.Range
        ir     == c.R.Header.IfRange
        et     == c.H.Etag
        lm     == ParseTime(c.H.LastModified)
        whole  == /\ c.R.Method \in { "GET", "HEAD" }
                  /\ ir # << >>
                  /\ \/ scanETag(ir).eTag # << >> /\ ~eTagStrongMatch(scanETag(ir).eTag, et)
                     \/ lm = 0
                     \/ ParseTime(ir) # lm
        parsed == ParseRanges(Split(SubSeq(rh, Len(BytesEq) + 1, Len(rh)), ","), size, << >>, FALSE)
        ranges == IF SumLength(parsed.ranges) > size THEN << >> ELSE parsed.ranges
    IN  IF rh = << >> \/ whole THEN WriteDeferred(c1, content, "content", 0, << >>)
        ELSE IF ~HasPrefix(rh, BytesEq) \/ parsed.err
        THEN [c1 EXCEPT !.Status = 416, !.err = "ErrBadRange"]
        ELSE IF parsed.noOverlap /\ Len(parsed.ranges) = 0
        THEN Unsatisfiable(c1, size)
        ELSE IF Len(ranges) = 1
        THEN WriteDeferred([c1 EXCEPT !.ContentLength = ranges[1].length,
                                      !.Status = 206,
                                      !.H.ContentRange = contentRange(ranges[1], size)],
                           content, "content", ranges[1].start, << >>)
        ELSE IF Len(ranges) > 1
        \* pr.Close() is deferred after the writing function and so runs
        \* before it: the copy from the pipe gets io.ErrClosedPipe.
        THEN WriteDeferred([c1 EXCEPT !.ContentLength = size + SumLength(ranges)
                                                            + SumFraming(ranges, TRUE, ct, size),
                                      !.Status = 206,
                                      !.H.ContentType = "multipart/byteranges; boundary="],
                           content, "pipe", 0, << >>)
        ELSE WriteDeferred(c1, content, "content", 0, << >>)

\* The 304 of WriteContent: Content-Type and Content-Length are deleted.
NotModified(c) == [c EXCEPT !.H.ContentType = "", !.H.ContentLength = << >>]

\* WriteContent with the test of If-Modified-Since not tied to the absence of
\* If-None-Match.
WriteContentDated(c, content) ==
    IF c.Written THEN [c EXCEPT !.err = ""]
    ELSE IF c.Status >= 400
    THEN [WriteDeferred(c, content, ReaderOf(content), 0, << >>) EXCEPT !.err = ""]
    ELSE
    LET rh  == c.R.Header
        et  == c.H.Etag
        ius == ParseTime(rh.IfUnmodifiedSince)
        lm  == ParseTime(c.H.LastModified)
        st1 == IF rh.IfMatch # << >>
               THEN IF IfMatchMatched(rh.IfMatch, et) THEN c.Status ELSE 412
               ELSE IF ius # 0 /\ ~(lm < ius + 1) THEN 412
               ELSE c.Status
        ims == ParseTime(rh.IfModifiedSince)
        inm == IF rh.IfNoneMatch # << >> THEN IfNoneMatchLoop(rh.IfNoneMatch, et) ELSE "absent"
        st2 == IF inm = "some"
               THEN IF c.R.Method \in { "GET", "HEAD" } THEN 304 ELSE 412
               ELSE IF ims # 0 /\ lm < ims + 1 THEN 304
               ELSE st1
        c2  == [c EXCEPT !.Status = st2, !.err = ""]
    IN  IF inm = "panic" THEN [c EXCEPT !.Status = st1, !.panic = TRUE]
        ELSE IF st2 >= 300 /\ st2 < 400
        THEN WriteDeferred(IF st2 = 304 THEN NotModified(c2) ELSE c2,
                           content, ReaderOf(content), 0, << >>)
        ELSE IF st2 = 412 THEN [c2 EXCEPT !.err = "ErrPreConditionFail"]
        ELSE IF content.nil THEN WriteDeferred(c2, content, "nil", 0, << >>)
        ELSE WriteRanges(c2, content)

\* Ctx.WriteContent(content) on the Ctx c: the Ctx when it returns.
WriteContent(c, content) ==
    IF c.Written THEN [c EXCEPT !.err = ""]
    ELSE IF c.Status >= 400
    THEN [WriteDeferred(c, content, ReaderOf(content), 0, << >>) EXCEPT !.err = ""]
    ELSE
    LET rh  == c.R.Header
        et  == c.H.Etag
        ius == ParseTime(rh.IfUnmodifiedSince)
        lm  == ParseTime(c.H.LastModified)
        st1 == IF rh.IfMatch # << >>
               THEN IF IfMatchMatched(rh.IfMatch, et) THEN c.Status ELSE 412
               ELSE IF ius # 0 /\ ~(lm < ius + 1) THEN 412
               ELSE c.Status
        ims == ParseTime(rh.IfModifiedSince)
        inm == IF rh.IfNoneMatch # << >> THEN IfNoneMatchLoop(rh.IfNoneMatch, et) ELSE "absent"
        st2 == IF inm = "some"
               THEN IF c.R.Method \in { "GET", "HEAD" } THEN 304 ELSE 412
               ELSE IF inm = "absent" /\ ims # 0 /\ lm < ims + 1 THEN 304
               ELSE st1
        c2  == [c EXCEPT !.Status = st2, !.err = ""]
    IN  IF inm = "panic" THEN [c EXCEPT !.Status = st1, !.panic = TRUE]
        ELSE IF st2 >= 300 /\ st2 < 400
        THEN WriteDeferred(IF st2 = 304 THEN NotModified(c2) ELSE c2,
                           content, ReaderOf(content), 0, << >>)
        ELSE IF st2 = 412 THEN [c2 EXCEPT !.err = "ErrPreConditionFail"]
        ELSE IF content.nil THEN WriteDeferred(c2, content, "nil", 0, << >>)
        ELSE WriteRanges(c2, content)

\* The ETags of the model.
ETagA == << "\"", "a", "\"" >>
ETagB == << "\"", "b", "\"" >>
WeakA == << "W", "/" >> \o ETagA

\* The methods of the model.
Methods == { "GET", "HEAD", "POST" }

\* If-None-Match values: one tag, a weak tag, a list, the star, a lone comma
\* and a tag that is not quoted.
IfNoneMatches ==
    { ETagA, ETagB, WeakA, << "*" >>, ETagB \o << ",", " " >> \o ETagA,
      << "," >>, << "a" >> }

\* Range values: one range, open and suffix ranges, ranges that start
\* behind every content, lists, and values that are not ranges.
RangeSpecs ==
    { << "0", "-", "0" >>, << "1", "-" >>, << "-", "1" >>,
      << "9", "-" >>, << "9", "-", "9" >>,
      << "8", "-", ",", " ", "9", "-", "9" >>,
      << "0", "-", "0", ",", "9", "-" >>,
      << "9", "-", ",", "0", "-", "0" >>,
      << "0", "-", "0", ",", "1", "-", "1" >>,
      << "0", "-", "0", ",", "9", "-", ",", "1", "-", "1" >>,
      << "x" >>, << "1", "-", "0" >> }

Ranges == { BytesEq \o spec : spec \in RangeSpecs } \cup { << "0", "-", "0" >> }

Request(method, tls, header) == [ Method |-> method, TLS |-> tls, Header |-> header ]

\* Requests with malformed headers: a lone comma, a trailing comma and an
\* unterminated tag in the lists, an empty list of ranges and a range
\* without numbers, and dates that are not dates.
Malformed ==
    { Request("GET", FALSE, [NoRequestHeader EXCEPT !.IfMatch = v]) :
          v \in { << "," >>, ETagB \o << "," >>, << "\"", "a" >> } }
    \cup { Request("GET", FALSE, [NoRequestHeader EXCEPT !.IfNoneMatch = v]) :
          v \in { ETagB \o << "," >>, << ",", " " >> \o ETagA, << "\"", "a" >>, << " " >> } }
    \cup { Request("GET", FALSE, [NoRequestHeader EXCEPT !.Range = BytesEq \o v]) :
          v \in { << >>, << "," >>, << "-" >>, << "0", "-", "0", "," >> } }
    \cup { Request("GET", FALSE, [NoRequestHeader EXCEPT !.Range = BytesEq \o << "0", "-", "0" >>,
                                                         !.IfRange = v]) :
          v \in { << "\"", "a" >>, << "," >> } }
    \cup { Request("GET", FALSE, [NoRequestHeader EXCEPT !.IfModifiedSince = << "x" >>]),
           Request("GET", FALSE, [NoRequestHeader EXCEPT !.IfUnmodifiedSince = << "d" >>]) }

\* Range values that are not ranges: no bytes= prefix, no "-", positions that
\* are not numbers, and an end before the start.
MalformedRanges ==
    { << "0", "-", "0" >>, BytesEq \o << "x" >>, BytesEq \o << "0", "-", "x" >>,
      BytesEq \o << "-", "x" >>, BytesEq \o << "1", "-", "0" >>,
      BytesEq \o << "0", "-", "0", ",", "x" >> }

\* The suffix with a negative length, and lists with an end before a start
\* that may lie behind the content.
LenientRanges ==
    { BytesEq \o << "-", "-", "1" >>,
      BytesEq \o << "0", "-", "0", ",", "1", "-", "0" >>,
      BytesEq \o << "9", "-", "5", ",", "0", "-", "0" >> }

\* Suffix ranges of no byte and of more bytes than every content has, and a
\* range whose end lies behind every content.
SuffixRanges ==
    { BytesEq \o << "-", "0" >>, BytesEq \o << "-", "9" >>, BytesEq \o << "0", "-", "9" >> }

\* Requests with If-Modified-Since next to an If-None-Match that names no
\* current tag, and with If-Modified-Since alone for each method.
Conditionals ==
    { Request(m, FALSE, [NoRequestHeader EXCEPT !.IfNoneMatch = v, !.IfModifiedSince = w]) :
          m \in { "GET", "POST" }, v \in { << >>, ETagB, << "a" >> },
          w \in { HttpDate(1), HttpDate(2) } }

\* The requests of the model: conditional requests, range requests with and
\* without If-Range, and range requests that carry a condition.
Requests ==
    { Request(m, tls, [NoRequestHeader EXCEPT !.IfNoneMatch = v]) :
          m \in Methods, tls \in BOOLEAN, v \in IfNoneMatches \cup { << >> } }
    \cup { Request(m, FALSE, [NoRequestHeader EXCEPT !.IfMatch = v, !.IfNoneMatch = w]) :
          m \in { "GET" }, v \in { ETagA, ETagB, << "*" >> }, w \in { << >>, ETagA } }
    \cup { Request("GET", FALSE, [NoRequestHeader EXCEPT !.IfMatch = v, !.IfModifiedSince = w]) :
          v \in { ETagB, WeakA, ETagB \o << ",", " " >> \o ETagA }, w \in { << >>, HttpDate(2) } }
    \cup { Request("GET", FALSE, [NoRequestHeader EXCEPT !.IfModifiedSince = v,
                                                         !.IfUnmodifiedSince = w]) :
          v \in { << >>, HttpDate(1), HttpDate(2) }, w \in { << >>, HttpDate(1) } }
    \cup { Request(m, FALSE, [NoRequestHeader EXCEPT !.Range = v, !.IfRange = w]) :
          m \in { "GET", "HEAD" }, v \in Ranges, w \in { << >>, ETagA, HttpDate(2) } }
    \cup { Request("GET", FALSE, [NoRequestHeader EXCEPT !.Range = BytesEq \o v, !.IfRange = w]) :
          v \in { << "0", "-", "0" >>, << "1", "-" >> }, w \in { ETagB, WeakA, HttpDate(1) } }
    \cup Malformed
    \cup Conditionals
    \cup { Request(m, FALSE, [NoRequestHeader EXCEPT !.Range = v]) :
          m \in { "GET", "POST" }, v \in MalformedRanges \cup LenientRanges }
    \cup { Request(m, FALSE, [NoRequestHeader EXCEPT !.Range = v]) :
          m \in { "GET", "HEAD" }, v \in SuffixRanges }
    \cup { Request("GET", FALSE, [NoRequestHeader EXCEPT !.Range = v, !.IfNoneMatch = w]) :
          v \in Ranges, w \in { ETagA, ETagB } }

\* The header a handler has set when it calls WriteContent.
HandlerHeaders ==
    { [NoHeader EXCEPT !.Etag = et, !.LastModified = lm, !.ContentType = ct] :
          et \in { << >>, ETagA }, lm \in { << >>, HttpDate(2) },
          ct \in { "", "text/html; charset=utf-8" } }

\* Err.Error() as bytes.
ErrorText(err) ==
    IF err = "ErrBadRange"
    THEN << 117, 110, 115, 97, 116, 105, 115, 102, 105, 97, 98, 108, 101, 32,
            114, 97, 110, 103, 101 >>
    ELSE << 112, 114, 101, 99, 111, 110, 100, 105, 116, 105, 111, 110, 32,
            102, 97, 105, 108, 101, 100 >>

(***************************************************************************)
(* pushWithHeaders and HTTP2Push: the headers of the pushed requests.       *)
(* An http.Header is a function from its keys to their values; the keys     *)
(* are sequences of characters.                                             *)
(***************************************************************************)

\* strings.Contains
Contains(s, sub) ==
    \E i \in 1..(Len(s) - Len(sub) + 1) : SubSeq(s, i, i + Len(sub) - 1) = sub

\* textproto.CanonicalMIMEHeaderKey for names of letters and hyphens: the
\* first letter and every letter after a hyphen in upper case, the others
\* in lower case.
CanonicalMIMEHeaderKey(name) ==
    [i \in 1..Len(name) |->
        IF i = 1 \/ name[i - 1] = "-" THEN UpperChar(name[i]) ELSE LowerChar(name[i])]

\* http.Header.Del
HeaderDel(h, key) ==
    [k \in DOMAIN h \ { CanonicalMIMEHeaderKey(key) } |-> h[k]]

\* http.Header.Set
HeaderSet(h, key, value) ==
    [k \in DOMAIN h \cup { CanonicalMIMEHeaderKey(key) } |->
        IF k = CanonicalMIMEHeaderKey(key) THEN value ELSE h[k]]

\* cloneHeader: a map with the same keys and copies of the values.
cloneHeader(h) == [k \in DOMAIN h |-> h[k]]

NameEtag       == << "e", "t", "a", "g" >>
NameIf         == << "i", "f" >>
NameModified   == << "m", "o", "d", "i", "f", "i", "e", "d" >>
NameCacheControl == << "c", "a", "c", "h", "e", "-", "c", "o", "n", "t", "r", "o", "l" >>

\* The header pushWithHeaders hands to HTTP2Push for the request header h:
\* the clone without etag and without the names that contain if or
\* modified.
PushHeaders(h) ==
    LET reqHeaders == HeaderDel(cloneHeader(h), NameEtag)
    IN  [name \in { k \in DOMAIN reqHeaders :
                        ~(Contains(k, NameIf) \/ Contains(k, NameModified)) }
            |-> reqHeaders[name]]

\* No http.PushOptions.
NilOptions == [ nil |-> TRUE, Header |-> << >> ]

\* HTTP2Push: the PushOptions given to p.Push for the headers.
PushOptions(headers) ==
    IF DOMAIN headers = {} THEN NilOptions
    ELSE [ nil |-> FALSE,
           Header |-> LET h0 == HeaderSet(<< >>, NameCacheControl, "private, must-revalidate")
                      IN  [k \in DOMAIN h0 \cup { CanonicalMIMEHeaderKey(n) : n \in DOMAIN headers } |->
                              IF \E n \in DOMAIN headers : CanonicalMIMEHeaderKey(n) = k
                              THEN headers[CHOOSE n \in DOMAIN headers : CanonicalMIMEHeaderKey(n) = k]
                              ELSE h0[k]] ]

\* The header names a client sends, as they are on the wire of HTTP/2.
WireNames ==
    { << "e", "t", "a", "g" >>,
      << "i", "f", "-", "n", "o", "n", "e", "-", "m", "a", "t", "c", "h" >>,
      << "i", "f", "-", "m", "o", "d", "i", "f", "i", "e", "d", "-", "s", "i", "n", "c", "e" >>,
      << "i", "f", "-", "m", "a", "t", "c", "h" >>,
      << "i", "f", "-", "u", "n", "m", "o", "d", "i", "f", "i", "e", "d", "-", "s", "i", "n", "c", "e" >>,
      << "i", "f", "-", "r", "a", "n", "g", "e" >>,
      << "a", "c", "c", "e", "p", "t", "-", "e", "n", "c", "o", "d", "i", "n", "g" >>,
      << "x", "-", "n", "o", "t", "i", "f", "y" >> }

\* The header of a request as net/http delivers it: the keys are the
\* canonical forms of the names sent.
RequestHeader(names) == [k \in { CanonicalMIMEHeaderKey(n) : n \in names } |-> "v"]

\* The push lists of the model.
PushLists ==
    { << << "/", "s", ".", "c", "s", "s" >> >>,
      << << "/", "s", ".", "c", "s", "s" >>, << "/", "m", ".", "j", "s" >> >> }

\* No request is being served with pushes.
NoPush == [ pc |-> "idle", R |-> << >>, reqHeaders |-> << >>, list |-> << >>, sent |-> << >> ]

(***************************************************************************)
(* State                                                                   *)
(***************************************************************************)

VARIABLES
    now,          \* time.Now(), in clock units
    files,        \* the disk: path -> [ver, mtime, gone] of each regular file
    assets,       \* the Assets that were stored, by pointer (index)
    store,        \* a.Cache: key -> pointer of the Asset stored under it
    watched,      \* the paths registered with a.Watcher
    events,       \* a.Watcher.Events: the events not yet received
    tickRunning,  \* a.Ticker is running (not stopped)
    tickC,        \* a.Ticker.C, a channel of capacity 1: the tick time, or 0
    closed,       \* whether Close has returned, and returned again (history)
    sw,           \* the sweeper goroutine of SetExpiryCheckInterval
    rq,           \* the callers: request handlers and the watcher goroutine
    rd,           \* Asset.Serve: the read offsets of the Asset's two readers
    sv,           \* Asset.Serve: the requests being served
    ctx,          \* the mak.Ctx of the request that Instance.ServeHTTP handles
    qp,           \* queryPushables: the parsed document and the list returned
    keys,         \* PrepPath(a.Dir, name) for the paths of the model, a table
                  \* that is computed once and never changes
    ph,           \* pushWithHeaders: the request header, the header for the
                  \* pushes, the targets still to push and the pushes made
    pipe,         \* WriteContent with several ranges: the io.Pipe, the producer
                  \* goroutine and the deferred functions
    prev,         \* the ticker that SetExpiryCheckInterval stopped, and the
                  \* goroutine that ranges over its channel
    pq            \* PrepPath: a file argument, and the results of PrepPath on
                  \* it and on its result

cacheVars == << now, files, assets, store, watched, events, tickRunning, tickC,
                closed, sw, rq >>
aux  == << rd, sv, ctx, qp, keys, ph, pipe, prev, pq >>
vars == << cacheVars, aux >>

\* name = PrepPath(a.Dir, name)
Key(name) == keys[name]

\* The callers: the request handler of the concurrent specifications, a
\* second caller for the specifications that need two, and the watcher loop.
Reqs  == { "r1" }
Reqs2 == { "r1", "r2" }
WProc == "w"
Procs == Reqs2 \cup { WProc }

\* The zero value of the Asset struct.
ZeroAsset ==
    [ Ext |-> << >>, Name |-> << >>, ContentType |-> "", Loaded |-> 0,
      ModTime |-> 0, Content |-> << >>, ContentCompressed |-> << >>,
      Etag |-> << >>, EtagCompressed |-> << >>, Compressed |-> FALSE,
      PushList |-> NilList ]

\* A response nothing was written to: no status, no header, no body. set is
\* the set of the names of the headers that are set.
NoResponse ==
    [ status |-> 0, set |-> {}, ContentType |-> "", CacheControl |-> "",
      Etag |-> << >>, ContentEncoding |-> "", Vary |-> "", body |-> << >> ]

\* A caller at rest: arg is the name it was called with, name the key or
\* path it works on, res the http.ResponseWriter it was handed.
Idle == [ pc |-> "done", op |-> "none", arg |-> << >>, name |-> << >>, mtime |-> 0,
          as |-> ZeroAsset, ret |-> 0, found |-> FALSE, err |-> "",
          res |-> NoResponse ]

SwIdle == [ pc |-> "idle", now |-> 0, todo |-> {}, key |-> << >>,
            froz |-> FALSE, map |-> << >> ]

\* No multi-range response so far: no pipe and no producer goroutine.
NoPipe == [ main |-> "none", prod |-> "off", done |-> FALSE, waited |-> FALSE ]

\* SetExpiryCheckInterval has run once, in Make: there is no stopped ticker.
NoPrev == [ set |-> FALSE, tickC |-> 0, sw |-> SwIdle ]

\* PrepPath was not called.
NoPrep == [ pc |-> "idle", file |-> << >>, once |-> << >>, twice |-> << >> ]

\* The requests that serve one cached Asset at the same time.
SReqs  == { "s1", "s2" }
SvIdle == [ pc |-> "idle", rep |-> "plain", size |-> 0, body |-> << >>,
            header |-> NoResponse, acceptsGzip |-> FALSE ]

\* hashmap Del: the map without key k.
MapDel(m, k) == [x \in DOMAIN m \ {k} |-> m[x]]

\* hashmap Set: the map with k bound to v.
MapSet(m, k, v) == [x \in DOMAIN m \cup {k} |-> IF x = k THEN v ELSE m[x]]

\* The Assets still referenced after a step: by the store, by a caller that
\* holds the pointer Get or Gen returned, or by the map a running iteration
\* walks.
Live ==
    { store'[k] : k \in DOMAIN store' }
        \cup { rq'[p].ret : p \in Procs }
        \cup { sw'.map[k] : k \in DOMAIN sw'.map }

\* Garbage collection: an Asset nothing refers to any more is gone.
Collect(as) == [i \in 1..Len(as) |-> IF i \in Live THEN as[i] ELSE ZeroAsset]

\* Make: an empty store, a running ticker, a watcher without registrations.
Init ==
    /\ now = 1
    /\ files = [p \in FilePaths |-> [ver |-> 0, mtime |-> 1, gone |-> FALSE]]
    /\ assets = << >>
    /\ store = << >>
    /\ watched = {}
    /\ events = << >>
    /\ tickRunning = TRUE
    /\ tickC = 0
    /\ closed = 0
    /\ sw = SwIdle
    /\ rq = [p \in Procs |-> Idle]
    /\ rd = [plain |-> 0, gz |-> 0]
    /\ sv = [r \in SReqs |-> SvIdle]
    /\ ctx = [NewCtx(Request("GET", FALSE, NoRequestHeader)) EXCEPT !.pc = "idle"]
    /\ qp = NoDocument
    /\ keys = [name \in Paths |-> PrepPath(Dir, name)]
    /\ ph = NoPush
    /\ pipe = NoPipe
    /\ prev = NoPrev
    /\ pq = NoPrep

\* The generations started so far and not yet stored.
InFlight == Cardinality({p \in Procs : rq[p].pc \in {"get", "read", "hash", "watch", "set"}})

CanGenerate == Len(assets) + InFlight < MaxAssets

(***************************************************************************)
(* The environment: the clock, the ticker and the files                    *)
(***************************************************************************)

\* Time passes.
Advance ==
    /\ now < MaxTime
    /\ now' = now + 1
    /\ UNCHANGED << files, assets, store, watched, events, tickRunning, tickC, closed, sw, rq, aux >>

\* The running ticker sends the time on its channel; a tick that finds the
\* channel full is dropped.
TickFire ==
    /\ tickRunning
    /\ tickC = 0
    /\ tickC' = now
    /\ UNCHANGED << now, files, assets, store, watched, events, tickRunning, closed, sw, rq, aux >>

\* Another process rewrites a file; a watched path gets a write event, which
\* the kernel merges with an identical event still at the tail of the queue.
ModifyFile(p) ==
    /\ ~files[p].gone
    /\ files[p].ver < MaxVer
    /\ files' = [files EXCEPT ![p].ver = @ + 1, ![p].mtime = @ + 1]
    /\ LET e == [name |-> p, post |-> closed > 0]
       IN  events' = IF p \in watched /\ (events = << >> \/ events[Len(events)] # e)
                     THEN Append(events, e)
                     ELSE events
    /\ UNCHANGED << now, assets, store, watched, tickRunning, tickC, closed, sw, rq, aux >>

\* Another process removes a file. A watched path gets a remove event and
\* the kernel drops its watch.
RemoveFile(p) ==
    /\ ~files[p].gone
    /\ files' = [files EXCEPT ![p].gone = TRUE]
    /\ LET e == [name |-> p, post |-> closed > 0]
       IN  events' = IF p \in watched /\ (events = << >> \/ events[Len(events)] # e)
                     THEN Append(events, e)
                     ELSE events
    /\ watched' = watched \ {p}
    /\ UNCHANGED << now, assets, store, tickRunning, tickC, closed, sw, rq, aux >>

\* os.Stat(p) succeeds on a regular file that is on disk.
Exists(p) == p \in FilePaths /\ ~files[p].gone

(***************************************************************************)
(* The cache operations. Each action is one access to the shared state     *)
(* (store, disk, watcher, clock) with the local computation around it.     *)
(***************************************************************************)

\* The operations that serve a file: ServeFileDirect ("Serve"), ServeFile and
\* AssetCache.Serve ("ServeReq").
ServeOps == { "Serve", "ServeFile", "ServeReq" }

\* Where an operation ends: ServeFileDirect goes on to Asset.Serve.
AfterGet(op) == IF op \in ServeOps THEN "serve" ELSE "done"

\* The file ServeFileDirect is called with: ServeFile hands it
\* PrepPath(a.Dir, file), AssetCache.Serve a.Index for the path "/" and else
\* what ServeFile does.
ServeName(op, n) ==
    IF op = "ServeFile" THEN Key(n)
    ELSE IF op = "ServeReq"
    THEN IF n = << "/" >> /\ ~NoIndex THEN Index ELSE Key(n)
    ELSE n

\* ServeFileDirect that answers a miss itself, as ServeHTTP does through
\* a.NotFoundHandler.
NotFoundHandled(r) ==
    [r EXCEPT !.err = "NotFoundError", !.res.status = 404, !.res.body = << 4, 0, 4 >>]

\* ServeFileDirect: if !ok { return a.NotFoundError }.
NotFound(r) == [r EXCEPT !.err = "NotFoundError"]

\* What a call whose Gen failed returns: Get and Gen the error of Gen,
\* the serving operations a.NotFoundError.
Failed(r) == IF r.op \in ServeOps THEN NotFound(r) ELSE r

\* Gen on a directory calls Gen on its index.html: the path Gen ends up at.
RECURSIVE GenTarget(_)
GenTarget(name) ==
    LET k == Key(name)
    IN  IF k \in DirPaths THEN GenTarget(Join(k, IndexHtml)) ELSE k

\* Gen up to os.Open: PrepPath, os.Stat (with the directory redirect). A path
\* that is no regular file makes Gen return nil and the error.
GenStat(op, arg, name) ==
    LET k == GenTarget(name)
    IN  IF Exists(k)
        THEN [ Idle EXCEPT !.op = op, !.arg = arg, !.name = k,
                           !.mtime = files[k].mtime, !.pc = "read" ]
        ELSE Failed([ Idle EXCEPT !.op = op, !.arg = arg, !.name = k, !.ret = 0,
                                  !.found = FALSE, !.err = "stat", !.pc = "done" ])

\* Get: the lookup of PrepPath(a.Dir, name); a hit returns the stored Asset,
\* a miss calls Gen.
GetLookup(op, arg, name) ==
    LET k == Key(name)
    IN  IF k \in DOMAIN store
        THEN [ Idle EXCEPT !.op = op, !.arg = arg, !.name = k, !.ret = store[k],
                           !.found = TRUE, !.pc = AfterGet(op) ]
        ELSE GenStat(op, arg, k)

\* A request handler calls a.Get(n), or a.ServeFileDirect(res, req, n),
\* a.ServeFile(res, req, n) or a.Serve(res, req) with the URL path n.
Get(p, op, n) ==
    /\ rq[p].pc = "done"
    /\ op \in { "Get" } \cup ServeOps
    /\ CanGenerate
    /\ rq' = [rq EXCEPT ![p] = GetLookup(op, n, ServeName(op, n))]
    /\ UNCHANGED << now, files, store, watched, events, tickRunning, tickC, closed, sw, aux >>
    /\ assets' = Collect(assets)

\* A caller calls a.Gen(n).
Gen(p, n) ==
    /\ rq[p].pc = "done"
    /\ CanGenerate
    /\ rq' = [rq EXCEPT ![p] = GenStat("Gen", n, n)]
    /\ UNCHANGED << now, files, store, watched, events, tickRunning, tickC, closed, sw, aux >>
    /\ assets' = Collect(assets)

\* Update: name = PrepPath(a.Dir, name); a.Cache.Del(name).
UpdateDel(p, n) ==
    LET k == Key(n)
    IN  /\ store' = MapDel(store, k)
        /\ rq' = [rq EXCEPT ![p] = [ Idle EXCEPT !.op = "Update", !.arg = n, !.name = k,
                                          !.pc = "get" ]]

\* A caller calls a.Update(n).
Update(p, n) ==
    /\ rq[p].pc = "done"
    /\ CanGenerate
    /\ UpdateDel(p, n)
    /\ UNCHANGED << now, files, watched, events, tickRunning, tickC, closed, sw, aux >>
    /\ assets' = Collect(assets)

\* Update: the a.Get(name) after the delete.
UpdateGet(p) ==
    /\ rq[p].pc = "get"
    /\ rq' = [rq EXCEPT ![p] = GetLookup(rq[p].op, rq[p].arg, rq[p].name)]
    /\ UNCHANGED << now, files, store, watched, events, tickRunning, tickC, closed, sw, aux >>
    /\ assets' = Collect(assets)

\* The Asset literal of Gen and, for a compressable extension, the gzip
\* bytes and their validator, from the content ioutil.ReadFile returned.
NewAsset(k, content, mtime) ==
    LET ext        == Ext(k)
        compressed == StringsContainCI(Compressable, ext)
        gz         == gzipBytes(content)
    IN  [ ZeroAsset EXCEPT
            !.ContentType = TypeByExtension(ext),
            !.Content = content,
            !.Compressed = compressed,
            !.ModTime = mtime,
            !.Ext = ext,
            !.Name = Base(k),
            !.ContentCompressed = IF compressed THEN gz ELSE << >>,
            !.EtagCompressed = IF compressed THEN EtagOf(gz) ELSE << >> ]

\* Gen returns nil and the error err; Get reports found = false.
GenError(r, err) ==
    Failed([ Idle EXCEPT !.op = r.op, !.arg = r.arg, !.name = r.name, !.err = err ])

\* GenRead with the Asset put into the store as soon as it is allocated,
\* before its validator, Loaded and push list are filled in.
GenReadStoring(p) ==
    /\ rq[p].pc = "read"
    /\ LET k  == rq[p].name
           as == NewAsset(k, FileBytes(k, files[k].ver), rq[p].mtime)
       IN  /\ rq' = [rq EXCEPT ![p].pc = "hash", ![p].as = as]
           /\ store' = MapSet(store, k, Len(assets) + 1)
    /\ UNCHANGED << now, files, watched, events, tickRunning, tickC, closed, sw, aux >>
    /\ assets' = Collect(Append(assets, NewAsset(rq[p].name, FileBytes(rq[p].name, files[rq[p].name].ver), rq[p].mtime)))

\* GenRead with a.Watcher.Add(name) moved up, ahead of the reads.
GenReadWatching(p) ==
    /\ rq[p].pc = "read"
    /\ watched' = watched \cup { rq[p].name }
    /\ LET k == rq[p].name
       IN  rq' = IF Exists(k)
                 THEN [rq EXCEPT ![p].pc = "hash",
                                 ![p].as = NewAsset(k, FileBytes(k, files[k].ver), rq[p].mtime)]
                 ELSE [rq EXCEPT ![p] = GenError(rq[p], "open")]
    /\ UNCHANGED << now, files, assets, store, events, tickRunning, tickC, closed, sw, aux >>

\* Gen: os.Open, ioutil.ReadFile and the construction of the Asset. A file
\* that was removed since os.Stat makes Gen return nil and the error.
GenRead(p) ==
    /\ rq[p].pc = "read"
    /\ LET k == rq[p].name
       IN  rq' = IF Exists(k)
                 THEN [rq EXCEPT ![p].pc = "hash",
                                 ![p].as = NewAsset(k, FileBytes(k, files[k].ver), rq[p].mtime)]
                 ELSE [rq EXCEPT ![p] = GenError(rq[p], "open")]
    /\ UNCHANGED << now, files, assets, store, watched, events, tickRunning, tickC, closed, sw, aux >>

\* Gen: ioutil.ReadFile, gzipBytes or io.Copy returns an error.
GenIOError(p) ==
    /\ rq[p].pc \in { "read", "hash" }
    /\ rq' = [rq EXCEPT ![p] = GenError(rq[p], "io")]
    /\ UNCHANGED << now, files, assets, store, watched, events, tickRunning, tickC, closed, sw, aux >>

\* HashedAsset with the time of loading hashed into the validator.
HashedAssetTimed(as, fbytes, t) ==
    [ as EXCEPT !.Etag = EtagOf(fbytes \o << t >>),
                !.Loaded = t,
                !.PushList = IF as.Ext = DotHtml THEN queryPushables(as.Content) ELSE @ ]

\* The rest of the construction: the digest of the bytes read from the open
\* file f, Loaded and, for .html, the push list.
HashedAsset(as, fbytes, t) ==
    [ as EXCEPT !.Etag = EtagOf(fbytes),
                !.Loaded = t,
                !.PushList = IF as.Ext = DotHtml THEN queryPushables(as.Content) ELSE @ ]

\* Gen: io.Copy(h, f) and time.Now().
GenHash(p) ==
    /\ rq[p].pc = "hash"
    /\ LET k == rq[p].name
       IN  rq' = [rq EXCEPT ![p].pc = IF Watch THEN "watch" ELSE "set",
                            ![p].as = HashedAsset(@, FileBytes(k, files[k].ver), now)]
    /\ UNCHANGED << now, files, assets, store, watched, events, tickRunning, tickC, closed, sw, aux >>

\* Gen: a.Watcher.Add(name), whose error is ignored: a path that is not on
\* disk any more is not registered.
GenWatch(p) ==
    /\ rq[p].pc = "watch"
    /\ watched' = IF Exists(rq[p].name) THEN watched \cup { rq[p].name } ELSE watched
    /\ rq' = [rq EXCEPT ![p].pc = "set"]
    /\ UNCHANGED << now, files, assets, store, events, tickRunning, tickC, closed, sw, aux >>

\* Gen: a.Cache.Set(name, asset) and the return; Get reports found.
GenSet(p) ==
    /\ rq[p].pc = "set"
    /\ store' = MapSet(store, rq[p].name, Len(assets) + 1)
    /\ rq' = [rq EXCEPT ![p].ret = Len(assets) + 1, ![p].found = TRUE,
                        ![p].as = ZeroAsset, ![p].mtime = 0,
                        ![p].pc = AfterGet(rq[p].op)]
    /\ UNCHANGED << now, files, watched, events, tickRunning, tickC, closed, sw, aux >>
    /\ assets' = Collect(Append(assets, rq[p].as))

\* Asset.Serve up to http.ServeContent: Content-Type, Cache-Control and, by
\* as.Compressed and the Accept-Encoding of the request, the validator and
\* the encoding headers.
ServeHeader(as, acceptsGzip) ==
    LET h == [ NoResponse EXCEPT !.set = { "Content-Type", "Cache-Control" },
                                 !.ContentType = as.ContentType,
                                 !.CacheControl = CacheControl ]
    IN  IF as.Compressed /\ acceptsGzip
        THEN [ h EXCEPT !.set = @ \cup { "Etag", "Content-Encoding", "Vary" },
                        !.Etag = as.EtagCompressed,
                        !.ContentEncoding = "gzip",
                        !.Vary = "accept-encoding" ]
        ELSE [ h EXCEPT !.set = @ \cup { "Etag" }, !.Etag = as.Etag ]

\* The response of Asset.Serve to a GET without Range or conditional headers
\* that no other request overlaps: status 200 and the whole representation.
ServeResponse(as, acceptsGzip) ==
    [ ServeHeader(as, acceptsGzip) EXCEPT
        !.status = 200,
        !.body = IF as.Compressed /\ acceptsGzip THEN as.ContentCompressed
                 ELSE as.Content ]

\* Asset.Serve: the response, and after http.ServeContent, as.Loaded = time.Now().
ServeEnd(p) ==
    /\ rq[p].pc = "serve"
    /\ \E acceptsGzip \in BOOLEAN :
         rq' = [rq EXCEPT ![p].pc = "done",
                          ![p].res = ServeResponse(assets[rq[p].ret], acceptsGzip)]
    /\ UNCHANGED << now, files, store, watched, events, tickRunning, tickC, closed, sw, aux >>
    /\ assets' = Collect([assets EXCEPT ![rq[p].ret].Loaded = now])

\* Del without the normalisation of the name.
DelUnprepared(p, n) ==
    /\ rq[p].pc = "done"
    /\ store' = MapDel(store, n)
    /\ rq' = [rq EXCEPT ![p] = [ Idle EXCEPT !.op = "Del", !.arg = n, !.name = n,
                                   !.pc = IF Watch THEN "unwatch" ELSE "done" ]]
    /\ UNCHANGED << now, files, watched, events, tickRunning, tickC, closed, sw, aux >>
    /\ assets' = Collect(assets)

\* A caller calls a.Del(n): name = PrepPath(a.Dir, name); a.Cache.Del(name).
Del(p, n) ==
    /\ rq[p].pc = "done"
    /\ LET k == Key(n)
       IN  /\ store' = MapDel(store, k)
           /\ rq' = [rq EXCEPT ![p] = [ Idle EXCEPT !.op = "Del", !.arg = n, !.name = k,
                                          !.pc = IF Watch THEN "unwatch" ELSE "done" ]]
    /\ UNCHANGED << now, files, watched, events, tickRunning, tickC, closed, sw, aux >>
    /\ assets' = Collect(assets)

\* Del: a.Watcher.Remove(name).
DelWatch(p) ==
    /\ rq[p].pc = "unwatch"
    /\ watched' = watched \ { rq[p].name }
    /\ rq' = [rq EXCEPT ![p].pc = "done"]
    /\ UNCHANGED << now, files, assets, store, events, tickRunning, tickC, closed, sw, aux >>

(***************************************************************************)
(* The watcher goroutine, the sweeper goroutine and Close                  *)
(***************************************************************************)

\* The watcher loop receives an event and calls a.Update(e.Name).
WatcherRecv ==
    /\ Watch
    /\ rq[WProc].pc = "done"
    /\ events # << >>
    /\ CanGenerate
    /\ events' = Tail(events)
    /\ UpdateDel(WProc, Head(events).name)
    /\ UNCHANGED << now, files, watched, tickRunning, tickC, closed, sw, aux >>
    /\ assets' = Collect(assets)

\* The sweeper after it is done with one entry: on to the next one, or back
\* to waiting for a tick.
SwNext(s, todo) ==
    IF todo = {} THEN SwIdle ELSE [s EXCEPT !.pc = "iter", !.todo = todo]

\* The sweeper loop receives a tick and starts iterating a.Cache.
SweepRecv ==
    /\ sw.pc = "idle"
    /\ tickC # 0
    /\ tickC' = 0
    /\ sw' = SwNext([ SwIdle EXCEPT !.now = tickC ], DOMAIN store)
    /\ UNCHANGED << now, files, store, watched, events, tickRunning, closed, rq, aux >>
    /\ assets' = Collect(assets)

\* The map the running iteration walks: a.Cache as it was when Close
\* replaced it, else a.Cache.
IterMap == IF sw.froz THEN sw.map ELSE store

\* The sweeper takes the next entry and tests asset.Loaded.Add(a.Expire).Before(now).
SweepVisit ==
    /\ sw.pc = "iter"
    /\ \E k \in sw.todo :
       LET rest == sw.todo \ {k}
       IN  sw' = IF k \in DOMAIN IterMap /\ assets[IterMap[k]].Loaded + Expire < sw.now
                 THEN [sw EXCEPT !.pc = "del", !.key = k, !.todo = rest]
                 ELSE SwNext(sw, rest)
    /\ UNCHANGED << now, files, store, watched, events, tickRunning, tickC, closed, rq, aux >>
    /\ assets' = Collect(assets)

\* The sweeper's a.Del(key) on a map that is locked while it is iterated:
\* the delete waits for the iteration to end.
SweepDelCacheLocked ==
    /\ sw.pc = "del"
    /\ sw.todo = {} /\ sw.key = << >>
    /\ LET k == Key(sw.key)
       IN  /\ store' = MapDel(store, k)
           /\ sw' = IF Watch THEN [sw EXCEPT !.key = k, !.pc = "unwatch"]
                    ELSE SwNext(sw, sw.todo)
    /\ UNCHANGED << now, files, watched, events, tickRunning, tickC, closed, rq, aux >>
    /\ assets' = Collect(assets)

\* The sweeper's a.Del(key): PrepPath and a.Cache.Del.
SweepDelCache ==
    /\ sw.pc = "del"
    /\ LET k == Key(sw.key)
       IN  /\ store' = MapDel(store, k)
           /\ sw' = IF Watch THEN [sw EXCEPT !.key = k, !.pc = "unwatch"]
                    ELSE SwNext(sw, sw.todo)
    /\ UNCHANGED << now, files, watched, events, tickRunning, tickC, closed, rq, aux >>
    /\ assets' = Collect(assets)

\* The sweeper's a.Del(key): a.Watcher.Remove.
SweepDelWatch ==
    /\ sw.pc = "unwatch"
    /\ watched' = watched \ { sw.key }
    /\ sw' = SwNext(sw, sw.todo)
    /\ UNCHANGED << now, files, store, events, tickRunning, tickC, closed, rq, aux >>
    /\ assets' = Collect(assets)

\* The history of Close: 1 once Close has returned, 2 once Close has run
\* again on a cache that was still empty with its ticker stopped.
Closed ==
    IF closed > 0 /\ store = << >> /\ ~tickRunning THEN 2
    ELSE IF closed = 0 THEN 1
    ELSE closed

\* Close that stops the ticker and keeps the map.
CloseKeepingMap ==
    /\ tickRunning' = FALSE
    /\ closed' = Closed
    /\ UNCHANGED << now, files, assets, store, watched, events, tickC, sw, rq, aux >>

\* Close: a.Cache = &HashMap{}; a.Ticker.Stop(). A running iteration keeps
\* walking the map it started on.
Close ==
    /\ store' = << >>
    /\ tickRunning' = FALSE
    /\ closed' = Closed
    /\ sw' = IF sw.pc # "idle" /\ ~sw.froz
             THEN [sw EXCEPT !.froz = TRUE, !.map = store]
             ELSE sw
    /\ UNCHANGED << now, files, watched, events, tickC, rq, aux >>
    /\ assets' = Collect(assets)

(***************************************************************************)
(* Asset.Serve on one cached Asset: http.ServeContent without a Range      *)
(* header. as.Content and as.ContentCompressed are *bytes.Reader values    *)
(* that every request seeks and reads; rd holds their read offsets.        *)
(***************************************************************************)

\* Scaled-down size of the copy buffer of io.CopyN.
CopyBuf == 2

\* The Asset being served: the Asset Gen builds for Dir/index.html.
ServedAsset ==
    HashedAsset(NewAsset(FIndex, FileBytes(FIndex, 0), 1), FileBytes(FIndex, 0), 1)

\* The bytes behind a reader of the served Asset.
RepBytes(rep) ==
    IF rep = "gz" THEN ServedAsset.ContentCompressed ELSE ServedAsset.Content

\* Asset.Serve picks the representation: the gzip one when the Asset is
\* compressed and Accept-Encoding contains gzip.
PickRep(acceptsGzip) ==
    IF ServedAsset.Compressed /\ acceptsGzip THEN "gz" ELSE "plain"

\* Asset.Serve up to the first seek of ServeContent: the header is set, and
\* content.Seek(0, io.SeekEnd) gives the size and leaves the reader at its end.
ServeSeekEnd(r, acceptsGzip) ==
    /\ sv[r].pc = "idle"
    /\ LET rep == PickRep(acceptsGzip)
       IN  /\ sv' = [sv EXCEPT ![r] = [ pc |-> "seekstart", rep |-> rep,
                                        size |-> Len(RepBytes(rep)), body |-> << >>,
                                        header |-> ServeHeader(ServedAsset, acceptsGzip),
                                        acceptsGzip |-> acceptsGzip ]]
           /\ rd' = [rd EXCEPT ![rep] = Len(RepBytes(rep))]
    /\ UNCHANGED << cacheVars, ctx, qp, keys, ph, pipe, prev, pq >>

\* ServeContent: content.Seek(0, io.SeekStart).
ServeSeekStart(r) ==
    /\ sv[r].pc = "seekstart"
    /\ rd' = [rd EXCEPT ![sv[r].rep] = 0]
    /\ sv' = [sv EXCEPT ![r].pc = "copy"]
    /\ UNCHANGED << cacheVars, ctx, qp, keys, ph, pipe, prev, pq >>

\* io.CopyN(w, content, size): one Read of the reader into the copy buffer
\* and the write of what it returned. A Read at the end of the reader
\* returns io.EOF and ends the copy.
ServeCopy(r) ==
    /\ sv[r].pc = "copy"
    /\ LET rep   == sv[r].rep
           bytes == RepBytes(rep)
           want  == Min(CopyBuf, sv[r].size - Len(sv[r].body))
           n     == Min(want, Len(bytes) - rd[rep])
       IN  IF n <= 0
           THEN /\ sv' = [sv EXCEPT ![r].pc = "done"]
                /\ rd' = rd
           ELSE /\ rd' = [rd EXCEPT ![rep] = @ + n]
                /\ sv' = [sv EXCEPT ![r].body = @ \o SubSeq(bytes, rd[rep] + 1, rd[rep] + n),
                                    ![r].pc = IF Len(sv[r].body) + n = sv[r].size
                                              THEN "done" ELSE "copy"]
    /\ UNCHANGED << cacheVars, ctx, qp, keys, ph, pipe, prev, pq >>

NextServe ==
    \/ \E r \in SReqs, g \in BOOLEAN : ServeSeekEnd(r, g)
    \/ \E r \in SReqs : ServeSeekStart(r)
    \/ \E r \in SReqs : ServeCopy(r)

\* Requests serving one cached Asset concurrently.
SpecServe == Init /\ [][NextServe]_vars

(***************************************************************************)
(* Instance.ServeHTTP with a handler that calls Ctx.WriteContent             *)
(***************************************************************************)

\* Instance.ServeHTTP makes the Ctx of a request.
ServeHTTP(r) ==
    /\ ctx.pc \in { "idle", "done", "again" }
    /\ ctx' = NewCtx(r)
    /\ UNCHANGED << cacheVars, rd, sv, qp, keys, ph, pipe, prev, pq >>

\* The handler of the route sets its header and calls WriteContent.
Route(header, content) ==
    /\ ctx.pc = "route"
    /\ LET c == WriteContent([ctx EXCEPT !.H = header, !.content = content, !.set = header], content)
       IN  ctx' = [c EXCEPT !.pc = IF c.err # "" /\ ~c.panic THEN "error" ELSE "done"]
    /\ UNCHANGED << cacheVars, rd, sv, qp, keys, ph, pipe, prev, pq >>

\* Instance.ServeHTTP on an error of the handler: for GET and HEAD the ETag
\* and Last-Modified are deleted, and the text of the error is written.
ErrorResponse ==
    /\ ctx.pc = "error"
    /\ ~ctx.Written
    /\ LET safe == ctx.R.Method \in { "GET", "HEAD" }
           c1   == [ctx EXCEPT !.Status = IF @ < 400 THEN 500 ELSE @,
                               !.H.Etag = IF safe THEN << >> ELSE @,
                               !.H.LastModified = IF safe THEN << >> ELSE @,
                               !.H.ContentType = "text/plain; charset=utf-8"]
           c2   == WriteContent(c1, NewReader(ErrorText(ctx.err)))
       IN  ctx' = [c2 EXCEPT !.pc = "done", !.err = ctx.err]
    /\ UNCHANGED << cacheVars, rd, sv, qp, keys, ph, pipe, prev, pq >>

NextContent ==
    \/ \E r \in Requests : ServeHTTP(r)
    \/ \E header \in HandlerHeaders, content \in Contents : Route(header, content)
    \/ ErrorResponse

\* One request after another served by a handler that calls WriteContent.
SpecContent == Init /\ [][NextContent]_vars

(***************************************************************************)
(* queryPushables on parsed documents                                      *)
(***************************************************************************)

\* The most elements in the head of a document of the model.
MaxHead == 2

Stylesheet == << "s", "t", "y", "l", "e", "s", "h", "e", "e", "t" >>

\* The elements of the documents, with targets that are absolute, relative
\* and protocol-relative and that have pushed and avoided extensions.
Elements1 ==
    { Element("link", << Attribute(KeyRel, Stylesheet), Attribute(KeyHref, << "/", "s", ".", "c", "s", "s" >>) >>, << >>),
      Element("link", << Attribute(KeyRel, Preload), Attribute(KeyHref, << "/", "p", ".", "j", "s" >>) >>, << >>),
      Element("link", << Attribute(KeyHref, << "/", "f", ".", "i", "c", "o" >>), Attribute(KeyRel, << "I", "c", "o", "n" >>) >>, << >>),
      Element("link", << Attribute(KeyHref, << "/", "h", ".", "c", "s", "s" >>) >>, << >>),
      Element("link", << Attribute(KeyRel, Stylesheet), Attribute(KeyHref, << "r", ".", "c", "s", "s" >>) >>, << >>),
      Element("link", << Attribute(KeyRel, Stylesheet) >>, << >>),
      Element("img", << Attribute(KeySrc, << "/", "a", ".", "p", "n", "g" >>) >>, << >>),
      Element("img", << Attribute(<< "a", "l", "t" >>, << "/", "x", ".", "j", "s" >>), Attribute(KeySrc, << "/", "i", ".", "j", "p", "g" >>) >>, << >>),
      Element("script", << Attribute(KeySrc, << "/", "m", ".", "j", "s" >>) >>, << >>),
      Element("script", << Attribute(KeySrc, << "m", ".", "j", "s" >>) >>, << >>),
      Element("script", << >>, << Text >>),
      Element("a", << Attribute(KeyHref, << "/", "n", ".", "h", "t", "m", "l" >>) >>, << Text >>) }

\* Elements whose target is on another host: protocol-relative (//h/x.js)
\* and scheme-qualified (s://h/x.js).
ElementsExternal ==
    { Element("script", << Attribute(KeySrc, << "/", "/", "h", "/", "x", ".", "j", "s" >>) >>, << >>),
      Element("script", << Attribute(KeySrc, << "s", ":", "/", "/", "h", "/", "x", ".", "j", "s" >>) >>, << >>),
      Element("link", << Attribute(KeyRel, Stylesheet), Attribute(KeyHref, << "/", "/", "h", "/", "x", ".", "c", "s", "s" >>) >>, << >>) }

\* The elements of a body: an element, or a div around elements and text.
Elements2 ==
    Elements1 \cup ElementsExternal \cup
    { Element("div", << >>, << Text, e, Element("p", << >>, << e >>) >>) :
          e \in { x \in Elements1 : x.Data \in { "img", "script" } } }

\* The documents of the model: at most MaxHead elements in the head and at
\* most one element in the body.
Documents ==
    { Document(head, body) :
          head \in UNION { [1..n -> { e \in Elements1 : e.Data \in { "link", "script" } }] : n \in 0..MaxHead },
          body \in { << >> } \cup { << e >> : e \in Elements2 } }

\* Gen has read an .html file and html.Parse has returned the tree.
ParseDocument(tree) ==
    /\ qp.pc = "idle"
    /\ qp' = [ pc |-> "parsed", tree |-> tree, list |-> << >> ]
    /\ UNCHANGED << cacheVars, rd, sv, ctx, keys, ph, pipe, prev, pq >>

\* queryPushables walks the tree and returns the list.
QueryPushables ==
    /\ qp.pc = "parsed"
    /\ qp' = [qp EXCEPT !.pc = "done", !.list = Walk(qp.tree)]
    /\ UNCHANGED << cacheVars, rd, sv, ctx, keys, ph, pipe, prev, pq >>

\* Gen keeps the list as the PushList of the Asset; the tree is garbage.
SetPushList ==
    /\ qp.pc = "done"
    /\ qp' = NoDocument
    /\ UNCHANGED << cacheVars, rd, sv, ctx, keys, ph, pipe, prev, pq >>

NextPush ==
    \/ \E tree \in Documents : ParseDocument(tree)
    \/ QueryPushables
    \/ SetPushList

\* Documents parsed and walked one after another.
SpecPush == Init /\ [][NextPush]_vars

(***************************************************************************)
(* Asset.Serve on a TLS request for an Asset with a push list               *)
(***************************************************************************)

\* Asset.Serve calls pushWithHeaders, which clones the header of the request
\* and deletes from the clone.
pushWithHeaders(names, list) ==
    /\ ph.pc = "idle"
    /\ LET R == RequestHeader(names)
       IN  ph' = [ pc |-> "push", R |-> R, reqHeaders |-> PushHeaders(R),
                   list |-> list, sent |-> << >> ]
    /\ UNCHANGED << cacheVars, rd, sv, ctx, qp, keys, pipe, prev, pq >>

\* The loop of pushWithHeaders: HTTP2Push for the next target of the list.
HTTP2Push ==
    /\ ph.pc = "push"
    /\ ph.list # << >>
    /\ ph' = [ph EXCEPT !.list = Tail(@),
                        !.sent = Append(@, [ target  |-> Head(ph.list),
                                             options |-> PushOptions(ph.reqHeaders) ])]
    /\ UNCHANGED << cacheVars, rd, sv, ctx, qp, keys, pipe, prev, pq >>

\* pushWithHeaders returns and Asset.Serve goes on to serve the content.
PushReturn ==
    /\ ph.pc = "push"
    /\ ph.list = << >>
    /\ ph' = [ph EXCEPT !.pc = "done"]
    /\ UNCHANGED << cacheVars, rd, sv, ctx, qp, keys, pipe, prev, pq >>

\* The request has been served.
PushServed ==
    /\ ph.pc = "done"
    /\ ph' = NoPush
    /\ UNCHANGED << cacheVars, rd, sv, ctx, qp, keys, pipe, prev, pq >>

NextPushHeaders ==
    \/ \E names \in SUBSET WireNames, list \in PushLists : pushWithHeaders(names, list)
    \/ HTTP2Push
    \/ PushReturn
    \/ PushServed

\* TLS requests for Assets with push lists served one after another.
SpecPushHeaders == Init /\ [][NextPushHeaders]_vars

(***************************************************************************)
(* Specifications of the cache                                             *)
(***************************************************************************)

\* The cache with its request handlers, watcher and sweeper.
Next ==
    \/ Advance
    \/ TickFire
    \/ \E f \in Modifiable : ModifyFile(f)
    \/ \E p \in Reqs, op \in { "Get", "Serve" }, n \in Names : Get(p, op, n)
    \/ \E p \in Reqs, n \in Names : Gen(p, n)
    \/ \E p \in Reqs, n \in Names : Update(p, n)
    \/ \E p \in Reqs, n \in Names : Del(p, n)
    \/ \E p \in Procs : UpdateGet(p)
    \/ \E p \in Procs : GenRead(p)
    \/ \E p \in Procs : GenHash(p)
    \/ \E p \in Procs : GenWatch(p)
    \/ \E p \in Procs : GenSet(p)
    \/ \E p \in Reqs : ServeEnd(p)
    \/ \E p \in Reqs : DelWatch(p)
    \/ WatcherRecv
    \/ SweepRecv
    \/ SweepVisit
    \/ SweepDelCache
    \/ SweepDelWatch

Spec == Init /\ [][Next]_vars

\* The sweeper and callers of Gen, with a name that climbs out of Dir.
NextSweep ==
    \/ Advance
    \/ TickFire
    \/ \E p \in Reqs, n \in { NPage, NClimb } : Gen(p, n)
    \/ \E p \in Reqs : GenRead(p)
    \/ \E p \in Reqs : GenHash(p)
    \/ \E p \in Reqs : GenWatch(p)
    \/ \E p \in Reqs : GenSet(p)
    \/ SweepRecv
    \/ SweepVisit
    \/ SweepDelCache
    \/ SweepDelWatch

SpecSweep == Init /\ [][NextSweep]_vars

\* The cache with Close: a request handler, the watcher and the sweeper.
NextClose ==
    \/ Advance
    \/ TickFire
    \/ \E f \in Modifiable : ModifyFile(f)
    \/ \E p \in Reqs : Get(p, "Get", NPage)
    \/ \E p \in Procs : UpdateGet(p)
    \/ \E p \in Procs : GenRead(p)
    \/ \E p \in Procs : GenHash(p)
    \/ \E p \in Procs : GenWatch(p)
    \/ \E p \in Procs : GenSet(p)
    \/ WatcherRecv
    \/ SweepRecv
    \/ SweepVisit
    \/ SweepDelCache
    \/ SweepDelWatch
    \/ Close

SpecClose == Init /\ [][NextClose]_vars

\* Callers of Get and Del on two pages, one after the other or overlapping.
NextDel ==
    \/ \E f \in Modifiable : ModifyFile(f)
    \/ \E p \in Reqs2, n \in { NPage, NIndex } : Get(p, "Get", n)
    \/ \E p \in Reqs2, n \in { NPage, NIndex, NRoot } : Del(p, n)
    \/ \E p \in Reqs2 : GenRead(p)
    \/ \E p \in Reqs2 : GenHash(p)
    \/ \E p \in Reqs2 : GenWatch(p)
    \/ \E p \in Reqs2 : GenSet(p)
    \/ \E p \in Reqs2 : DelWatch(p)

SpecDel == Init /\ [][NextDel]_vars

\* Callers of Get and Gen while files are rewritten and removed and reads
\* fail.
NextFail ==
    \/ \E f \in Modifiable : ModifyFile(f)
    \/ \E f \in Modifiable : RemoveFile(f)
    \/ \E p \in Reqs, n \in { NPage, NIndex, NRoot } : Get(p, "Get", n)
    \/ \E p \in Reqs, n \in { NPage, NIndex, NRoot } : Gen(p, n)
    \/ \E p \in Reqs : GenRead(p)
    \/ \E p \in Reqs : GenIOError(p)
    \/ \E p \in Reqs : GenHash(p)
    \/ \E p \in Reqs : GenWatch(p)
    \/ \E p \in Reqs : GenSet(p)

SpecFail == Init /\ [][NextFail]_vars

\* Requests served through ServeFileDirect, ServeFile and AssetCache.Serve,
\* for files that exist, that never existed and that are removed meanwhile.
NextNotFound ==
    \/ \E f \in Modifiable : RemoveFile(f)
    \/ \E p \in Reqs, op \in ServeOps, n \in { NRoot, NPage, NNone } : Get(p, op, n)
    \/ \E p \in Reqs : GenRead(p)
    \/ \E p \in Reqs : GenIOError(p)
    \/ \E p \in Reqs : GenHash(p)
    \/ \E p \in Reqs : GenWatch(p)
    \/ \E p \in Reqs : GenSet(p)
    \/ \E p \in Reqs : ServeEnd(p)

SpecNotFound == Init /\ [][NextNotFound]_vars

\* A caller that gets the Asset of a page and holds it, and a second caller
\* that generates, deletes and regenerates it, while time passes and the page
\* is rewritten.
NextRegen ==
    \/ Advance
    \/ \E f \in Modifiable : ModifyFile(f)
    \/ \E p \in Reqs2 : Get(p, "Get", NPage)
    \/ \E p \in Reqs2 \ Reqs : Gen(p, NPage)
    \/ \E p \in Reqs2 \ Reqs : Update(p, NPage)
    \/ \E p \in Reqs2 \ Reqs : Del(p, NPage)
    \/ \E p \in Reqs2 : UpdateGet(p)
    \/ \E p \in Reqs2 : GenRead(p)
    \/ \E p \in Reqs2 : GenHash(p)
    \/ \E p \in Reqs2 : GenWatch(p)
    \/ \E p \in Reqs2 : GenSet(p)
    \/ \E p \in Reqs2 : DelWatch(p)

SpecRegen == Init /\ [][NextRegen]_vars

\* A caller that generates or gets an Asset and holds it, and a second caller
\* that updates and gets it, for a page and for a name that climbs out of Dir.
NextUpdate ==
    \/ \E f \in Modifiable : ModifyFile(f)
    \/ \E p \in Reqs2, n \in { NPage, NClimb } : Get(p, "Get", n)
    \/ \E p \in Reqs, n \in { NPage, NClimb } : Gen(p, n)
    \/ \E p \in Reqs2 \ Reqs, n \in { NPage, NClimb } : Update(p, n)
    \/ \E p \in Reqs2 : UpdateGet(p)
    \/ \E p \in Reqs2 : GenRead(p)
    \/ \E p \in Reqs2 : GenHash(p)
    \/ \E p \in Reqs2 : GenWatch(p)
    \/ \E p \in Reqs2 : GenSet(p)

SpecUpdate == Init /\ [][NextUpdate]_vars

\* Request handlers that get and serve a page, the watcher and the sweeper.
NextLive ==
    \/ Advance
    \/ TickFire
    \/ \E f \in Modifiable : ModifyFile(f)
    \/ \E p \in Reqs, op \in { "Get", "Serve" } : Get(p, op, NPage)
    \/ \E p \in Procs : UpdateGet(p)
    \/ \E p \in Procs : GenRead(p)
    \/ \E p \in Procs : GenHash(p)
    \/ \E p \in Procs : GenWatch(p)
    \/ \E p \in Procs : GenSet(p)
    \/ \E p \in Reqs : ServeEnd(p)
    \/ WatcherRecv
    \/ SweepRecv
    \/ SweepVisit
    \/ SweepDelCache
    \/ SweepDelWatch

SpecLive == Init /\ [][NextLive]_vars

\* A request handler that gets a page and the watcher, while the page is
\* rewritten and removed.
NextWatch ==
    \/ \E f \in Modifiable : ModifyFile(f)
    \/ \E f \in Modifiable : RemoveFile(f)
    \/ \E p \in Reqs : Get(p, "Get", NPage)
    \/ UpdateGet(WProc)
    \/ \E p \in Procs : GenRead(p)
    \/ \E p \in Procs : GenHash(p)
    \/ \E p \in Procs : GenWatch(p)
    \/ \E p \in Procs : GenSet(p)
    \/ WatcherRecv

SpecWatch == Init /\ [][NextWatch]_vars

\* Two request handlers that get the same page, which is not cached and is
\* not rewritten, while time passes.
NextRace ==
    \/ Advance
    \/ \E p \in Reqs2 : Get(p, "Get", NPage)
    \/ \E p \in Reqs2 : GenRead(p)
    \/ \E p \in Reqs2 : GenHash(p)
    \/ \E p \in Reqs2 : GenWatch(p)
    \/ \E p \in Reqs2 : GenSet(p)

SpecRace == Init /\ [][NextRace]_vars

\* Two request handlers that get a page and a directory of the cache, again
\* and again, while time passes.
NextAgain ==
    \/ Advance
    \/ \E p \in Reqs2, n \in { NPage, NSub } : Get(p, "Get", n)
    \/ \E p \in Reqs2 : GenRead(p)
    \/ \E p \in Reqs2 : GenHash(p)
    \/ \E p \in Reqs2 : GenWatch(p)
    \/ \E p \in Reqs2 : GenSet(p)

SpecAgain == Init /\ [][NextAgain]_vars

(***************************************************************************)
(* Properties                                                              *)
(***************************************************************************)

\* The bytes on disk of the regular file at path k, now.
OnDisk(k) == FileBytes(k, files[k].ver)

\* No event is waiting, the watcher loop is between events and no caller is
\* inside Update, Get or Gen.
Quiescent ==
    /\ events = << >>
    /\ \A p \in Procs : rq[p].pc \in { "done", "serve", "unwatch" }

\* C1: with Watch enabled, once every watcher event has been handled and every
\* in-flight Gen has finished, each entry of the store holds the current
\* content of its file and the validator of that content.
C1_CacheCoherent ==
    (Watch /\ Quiescent) =>
        \A k \in DOMAIN store \cap FilePaths :
            /\ assets[store[k]].Content = OnDisk(k)
            /\ assets[store[k]].Etag = EtagOf(OnDisk(k))

\* An Asset with every field Gen gives it: content, validator, content type,
\* modification time, Loaded, the push list of an .html body and, if it is
\* compressed, the gzip bytes and their validator.
FullyConstructed(a) ==
    /\ a.Content # << >>
    /\ a.Etag # << >>
    /\ a.ContentType = TypeByExtension(a.Ext)
    /\ a.ModTime # 0
    /\ a.Loaded # 0
    /\ a.Ext = DotHtml => ~a.PushList.nil
    /\ a.Compressed => a.ContentCompressed # << >> /\ a.EtagCompressed # << >>

\* C2: every Asset in the store, and every Asset Get returned with found =
\* true, is fully constructed, in every interleaving of the request handler,
\* the sweeper and the watcher.
C2_FullyConstructed ==
    /\ \A k \in DOMAIN store : FullyConstructed(assets[store[k]])
    /\ \A p \in Procs :
        (rq[p].pc \in { "done", "serve" } /\ rq[p].found) =>
            FullyConstructed(assets[rq[p].ret])

\* C2, its case: a compressed Asset is in the store and Get has returned it.
C2_Witness ==
    \E p \in Reqs :
        /\ rq[p].op = "Get" /\ rq[p].pc = "done" /\ rq[p].found
        /\ rq[p].name \in DOMAIN store
        /\ assets[store[rq[p].name]].Compressed
        /\ rq[WProc].pc \in { "read", "hash" }

\* C3: when requests serve the same cached Asset concurrently, the body of
\* each response is the full byte sequence of its representation.
C3_FullBody ==
    \A r \in SReqs :
        sv[r].pc = "done" => sv[r].body = RepBytes(sv[r].rep)

\* C4: when the sweeper deletes an entry whose Loaded time is more than Expire
\* before the tick, the entry is absent from the store afterwards.
C4_ExpiredEntryGone ==
    [][ ( /\ SweepDelCache
          /\ sw.key \in DOMAIN store
          /\ assets[store[sw.key]].Loaded + Expire < sw.now )
        => sw.key \notin DOMAIN store' ]_vars

\* C5: the sweeper never deletes an entry whose Loaded time is at most Expire
\* before the tick time.
C5_NoFreshDeleted ==
    [][ SweepDelCache =>
          LET k == PrepPath(Dir, sw.key)
          IN  k \in DOMAIN store => assets[store[k]].Loaded + Expire < sw.now ]_vars

\* C6: Get("/") on a cache whose Dir contains index.html returns found = true
\* and the Asset generated from Dir/index.html.
C6_RootIsIndex ==
    \A p \in Reqs :
        (rq[p].pc = "done" /\ rq[p].op = "Get" /\ rq[p].arg = NRoot /\ FIndex \in FilePaths) =>
            /\ rq[p].found
            /\ assets[rq[p].ret].Content = OnDisk(FIndex)
            /\ assets[rq[p].ret].Name = IndexHtml

\* C7: after Close has returned, no file event delivered afterwards makes the
\* watcher loop run Update.
C7_WatcherStopped ==
    [][ WatcherRecv => ~Head(events).post ]_vars

\* C8: after Close has returned, no sweep pass starts and the sweeper deletes
\* no entry.
C8_SweeperStopped ==
    [][ closed > 0 => ~SweepRecv /\ ~(SweepDelCache /\ store' # store) ]_vars

\* C9: Close leaves the store empty and the ticker stopped, and a Close of a
\* cache that is empty with its ticker stopped changes nothing of the cache.
C9_CloseDropsIdempotent ==
    [][ Close =>
          /\ store' = << >>
          /\ ~tickRunning'
          /\ (store = << >> /\ ~tickRunning) =>
                /\ tickC' = tickC /\ watched' = watched /\ events' = events
                /\ files' = files /\ rq' = rq ]_vars

\* C9, its case: Close has run on a cache that had generated an Asset and has
\* run again on the closed cache; the store is empty with the ticker stopped.
C9_Witness ==
    closed = 2 /\ Len(assets) > 0 /\ store = << >> /\ ~tickRunning

\* C10: Del(name) removes the entry keyed PrepPath(Dir, name) and then the
\* watch registration of that path, and leaves every other entry, every other
\* registration, the Assets and the files as they were.
C10_DelFrame ==
    [][ \A p \in Reqs2 :
          /\ \A n \in { NPage, NIndex, NRoot } :
                Del(p, n) =>
                    LET k == PrepPath(Dir, n)
                    IN  /\ DOMAIN store' = DOMAIN store \ {k}
                        /\ \A x \in DOMAIN store' : store'[x] = store[x]
                        /\ \A x \in DOMAIN store' : assets'[store'[x]] = assets[store[x]]
                        /\ watched' = watched
                        /\ files' = files
          /\ DelWatch(p) =>
                /\ watched' = watched \ { PrepPath(Dir, rq[p].arg) }
                /\ store' = store
                /\ files' = files /\ assets' = assets ]_vars

\* C10, its case: a Del has removed an entry and its registration while
\* another entry and another registration are still there.
C10_Witness ==
    \E p \in Reqs2 :
        /\ rq[p].op = "Del" /\ rq[p].pc = "done"
        /\ rq[p].name \in FilePaths
        /\ rq[p].name \notin DOMAIN store
        /\ rq[p].name \notin watched
        /\ DOMAIN store # {}
        /\ watched # {}
        /\ Len(assets) >= 2

\* C11: a Gen that fails (os.Stat on a path that is no regular file, os.Open
\* of a file removed meanwhile, or an error of the reads, gzip or the digest)
\* returns nil with the error, and no step of Gen up to the failure changes
\* the store or the watched paths; Get then reports found = false.
C11_GenFailureFrame ==
    [][ \A p \in Reqs :
          /\ \A n \in { NPage, NIndex, NRoot } :
                /\ (Gen(p, n) /\ ~Exists(GenTarget(n))) =>
                        rq'[p].pc = "done" /\ rq'[p].ret = 0 /\ rq'[p].err # ""
                /\ ( /\ Get(p, "Get", n)
                     /\ PrepPath(Dir, n) \notin DOMAIN store
                     /\ ~Exists(GenTarget(PrepPath(Dir, n))) ) =>
                        rq'[p].pc = "done" /\ rq'[p].ret = 0 /\ ~rq'[p].found
                /\ (Gen(p, n) \/ Get(p, "Get", n)) =>
                        store' = store /\ watched' = watched
          /\ ((GenRead(p) /\ ~Exists(rq[p].name)) \/ GenIOError(p)) =>
                /\ rq'[p].pc = "done" /\ rq'[p].ret = 0 /\ rq'[p].err # ""
                /\ ~rq'[p].found
          /\ (GenRead(p) \/ GenIOError(p) \/ GenHash(p)) =>
                store' = store /\ watched' = watched ]_vars

\* C11, its case: with an entry in the store and a path being watched, a Get
\* of another file has passed os.Stat, lost the file and returned not found.
C11_Witness ==
    \E p \in Reqs :
        /\ rq[p].pc = "done" /\ rq[p].op = "Get" /\ rq[p].err = "open"
        /\ ~rq[p].found /\ rq[p].ret = 0
        /\ store # << >> /\ watched # {}

\* C12: a ServeFileDirect, ServeFile or AssetCache.Serve that gets no Asset
\* returns a.NotFoundError and has written nothing to the response: no
\* status, no header, no body.
C12_NotFoundWritesNothing ==
    \A p \in Reqs :
        (rq[p].pc = "done" /\ rq[p].op \in ServeOps /\ ~rq[p].found) =>
            /\ rq[p].err = "NotFoundError"
            /\ rq[p].res = NoResponse

\* C12, its case: after a request that was served, AssetCache.Serve was
\* called for a path without a file and has returned.
C12_Witness ==
    \E p \in Reqs :
        /\ rq[p].pc = "done" /\ rq[p].op = "ServeReq" /\ rq[p].arg = NNone
        /\ ~rq[p].found /\ rq[p].err = "NotFoundError"
        /\ store # << >>

\* The path of the file an Asset was generated from.
FileOf(a) == CHOOSE k \in FilePaths : Base(k) = a.Name

\* The Assets that were generated from the file as it is now: the file was
\* not modified since their generation started.
FromCurrent ==
    { i \in 1..Len(assets) :
        /\ assets[i].Name # << >>
        /\ assets[i].ModTime = files[FileOf(assets[i])].mtime }

\* C13: any two generations of the Asset of a file that was not modified in
\* between (by Get, Gen, or again after Del or Update) give the same Etag and
\* the same EtagCompressed.
C13_EtagDeterministic ==
    \A i, j \in FromCurrent :
        assets[i].Name = assets[j].Name =>
            /\ assets[i].Etag = assets[j].Etag
            /\ assets[i].EtagCompressed = assets[j].EtagCompressed

\* C13, its case: a caller holds the Asset of the rewritten page, the other
\* caller has generated it again by Update at a later time, and the file was
\* not modified in between.
C13_Witness ==
    \E i, j \in FromCurrent :
        /\ i # j
        /\ assets[i].Name = assets[j].Name
        /\ assets[i].Loaded # assets[j].Loaded
        /\ assets[i].Compressed
        /\ files[FileOf(assets[i])].ver > 0
        /\ \E p \in Reqs2 : rq[p].op = "Update" /\ rq[p].pc = "done" /\ rq[p].ret = j

\* Equal in content, compressed content, validators, content type and
\* modification time.
SameContent(a, b) ==
    /\ a.Content = b.Content
    /\ a.ContentCompressed = b.ContentCompressed
    /\ a.Etag = b.Etag
    /\ a.EtagCompressed = b.EtagCompressed
    /\ a.ContentType = b.ContentType
    /\ a.ModTime = b.ModTime

\* C14: for a file that exists and whose Asset a caller got or generated
\* under a name, Update of that name returns true, and when the file is
\* unchanged a Get of the name returns an Asset equal in content, compressed
\* content, validators, content type and modification time to that Asset.
C14_UpdateIdempotent ==
    \A p, q \in Reqs2 :
        ( /\ p # q
          /\ rq[p].pc = "done" /\ rq[p].found
          /\ rq[p].op \in { "Get", "Gen" }
          /\ rq[q].pc = "done"
          /\ rq[q].arg = rq[p].arg
          /\ Exists(FileOf(assets[rq[p].ret])) ) =>
            /\ rq[q].op = "Update" => rq[q].found
            /\ ( /\ rq[q].op = "Get" /\ rq[q].found
                 /\ { rq[p].ret, rq[q].ret } \subseteq FromCurrent ) =>
                    SameContent(assets[rq[p].ret], assets[rq[q].ret])

\* C15: no interleaving of the request handlers, the sweeper loop and the
\* watcher loop blocks one of them: in every reachable state a call in
\* progress (of a request handler or of the watcher's Update) can take its
\* next step, each of which brings it closer to its return; a sweep pass in
\* progress can take its next step; the sweeper at rest can receive a tick
\* that is on the channel, and the watcher loop at rest can receive an event
\* that is in the queue (as long as generations may be started).
C15_NoDeadlock ==
    /\ \A p \in Procs :
        /\ rq[p].pc \in { "done", "get", "read", "hash", "watch", "set", "serve", "unwatch" }
        /\ rq[p].pc = "get" => ENABLED UpdateGet(p)
        /\ rq[p].pc = "read" => ENABLED GenRead(p)
        /\ rq[p].pc = "hash" => ENABLED GenHash(p)
        /\ rq[p].pc = "watch" => ENABLED GenWatch(p)
        /\ rq[p].pc = "set" => ENABLED GenSet(p)
        /\ rq[p].pc = "serve" => ENABLED ServeEnd(p)
        /\ rq[p].pc = "unwatch" => ENABLED DelWatch(p)
    /\ sw.pc \in { "idle", "iter", "del", "unwatch" }
    /\ sw.pc = "iter" => ENABLED SweepVisit
    /\ sw.pc = "del" => ENABLED SweepDelCache
    /\ sw.pc = "unwatch" => ENABLED SweepDelWatch
    /\ (sw.pc = "idle" /\ tickC # 0) => ENABLED SweepRecv
    /\ (rq[WProc].pc = "done" /\ events # << >> /\ CanGenerate) => ENABLED WatcherRecv

\* C15, its case: the sweeper is about to delete an entry while a request is
\* being served and the watcher is inside Update.
C15_Witness ==
    /\ sw.pc = "del"
    /\ \E p \in Reqs : rq[p].pc = "serve"
    /\ rq[WProc].pc \in { "get", "read", "hash", "watch", "set" }


\* C16: a GET or HEAD request whose If-None-Match equals the current ETag is
\* answered by WriteContent with status 304, without a body, without a
\* Content-Length header and without a Content-Type header, whether the
\* content is nil or not.
C16_NotModifiedBare ==
    ( /\ ctx.pc = "done"
      /\ ctx.R.Method \in { "GET", "HEAD" }
      /\ ctx.H.Etag # << >>
      /\ ctx.R.Header.IfNoneMatch = ctx.H.Etag ) =>
        /\ ctx.Written
        /\ ctx.W.code = 304
        /\ ctx.W.body = << >>
        /\ ctx.W.header.ContentLength = << >>
        /\ ctx.W.header.ContentType = ""

\* C16 without the Content-Length header: status 304, no body and no
\* Content-Type.
C16_NotModifiedStatus ==
    ( /\ ctx.pc = "done"
      /\ ctx.R.Method \in { "GET", "HEAD" }
      /\ ctx.H.Etag # << >>
      /\ ctx.R.Header.IfNoneMatch = ctx.H.Etag ) =>
        /\ ctx.Written
        /\ ctx.W.code = 304
        /\ ctx.W.body = << >>
        /\ ctx.W.header.ContentType = ""


\* The conditions of the request hold for the ETag and the Last-Modified
\* the handler has set: If-Match names the ETag, If-None-Match does not,
\* the dates do not rule the response out, and If-Range names the ETag or
\* the date of the content. header is the header the handler has set.
ConditionsHold(r, header) ==
    LET et == header.Etag
        lm == ParseTime(header.LastModified)
    IN  /\ r.IfMatch # << >> => IfMatchMatched(r.IfMatch, et)
        /\ r.IfNoneMatch # << >> => IfNoneMatchLoop(r.IfNoneMatch, et) = "none"
        /\ r.IfUnmodifiedSince = << >>
        /\ r.IfModifiedSince = << >>
        /\ r.IfRange # << >> =>
               \/ eTagStrongMatch(scanETag(r.IfRange).eTag, et)
               \/ ParseTime(r.IfRange) # 0 /\ ParseTime(r.IfRange) = lm

\* The response to GET with Range: bytes=0-0 for the content of ctx: 206,
\* Content-Range: bytes 0-0/N, Content-Length: 1 and the first byte.
FirstByteSent ==
    /\ ctx.Written
    /\ ctx.W.code = 206
    /\ ctx.W.header.ContentRange
           = << "b", "y", "t", "e", "s", " ", "0", "-", "0", "/" >> \o FormatInt(Len(ctx.content.bytes))
    /\ ctx.W.header.ContentLength = << "1" >>
    /\ ctx.W.body = << ctx.content.bytes[1] >>

\* C17: for a content of N > 0 bytes, a GET with Range: bytes=0-0 and no
\* failing conditional header is answered with status 206, Content-Range:
\* bytes 0-0/N, Content-Length: 1 and a body of exactly the first byte.
C17_FirstByte ==
    ( /\ ctx.pc = "done"
      /\ ctx.R.Method = "GET"
      /\ ctx.R.Header.Range = BytesEq \o << "0", "-", "0" >>
      /\ ~ctx.content.nil /\ Len(ctx.content.bytes) > 0
      /\ ConditionsHold(ctx.R.Header, ctx.set) ) => FirstByteSent

\* C17 for requests that carry no If-Range header.
C17_FirstByteNoIfRange ==
    ( /\ ctx.pc = "done"
      /\ ctx.R.Method = "GET"
      /\ ctx.R.Header.Range = BytesEq \o << "0", "-", "0" >>
      /\ ~ctx.content.nil /\ Len(ctx.content.bytes) > 0
      /\ ctx.R.Header.IfRange = << >>
      /\ ConditionsHold(ctx.R.Header, ctx.set) ) => FirstByteSent


\* The starts of the range specifiers of a Range header whose specifiers
\* all have the form start-end or start-.
RangeStarts(rh) ==
    LET specs == Split(SubSeq(rh, Len(BytesEq) + 1, Len(rh)), ",")
    IN  { ParseInt(TrimSpace(SubSeq(specs[i], 1, stringsIndex(specs[i], "-")))).val :
              i \in 1..Len(specs) }

\* The Range headers of the model whose specifiers all have a start.
StartRanges ==
    { BytesEq \o spec : spec \in
        { << "9", "-" >>, << "9", "-", "9" >>, << "8", "-", ",", " ", "9", "-", "9" >>,
          << "0", "-", "0", ",", "9", "-" >>, << "9", "-", ",", "0", "-", "0" >>,
          << "0", "-", "0", ",", "9", "-", ",", "1", "-", "1" >> } }

\* The request of ctx has a Range header of starts, the handler passed a
\* content, no condition of the request fails and the response is complete.
RangeEvaluated ==
    /\ ctx.pc = "done"
    /\ ctx.R.Header.Range \in StartRanges
    /\ ~ctx.content.nil
    /\ ConditionsHold(ctx.R.Header, ctx.set)

\* 416 with Content-Range: bytes */size if every range starts at or behind
\* the size; no error and 206 if one range starts before it.
RangesSkipped ==
    LET size   == Len(ctx.content.bytes)
        starts == RangeStarts(ctx.R.Header.Range)
    IN  IF \A s \in starts : s >= size
        THEN /\ ctx.W.code = 416
             /\ ctx.W.header.ContentRange
                    = << "b", "y", "t", "e", "s", " ", "*", "/" >> \o FormatInt(size)
        ELSE /\ ctx.err = ""
             /\ ctx.W.code = 206

\* C18: a Range request all of whose ranges start at or behind the size of
\* the content ends with status 416 and Content-Range: bytes */size; a
\* range that starts at or behind the size next to a valid range is skipped
\* and the request is answered without an error.
C18_OutOfRange == RangeEvaluated => RangesSkipped

\* C18 for requests that carry no If-Range header.
C18_OutOfRangeNoIfRange ==
    (RangeEvaluated /\ ctx.R.Header.IfRange = << >>) => RangesSkipped


\* The header of a finished response names the representation that the
\* Accept-Encoding of its request selects: gzip, Vary and EtagCompressed, or
\* the plain Etag and no Content-Encoding.
RepresentationHeader(r) ==
    IF sv[r].acceptsGzip
    THEN /\ sv[r].header.ContentEncoding = "gzip"
         /\ "Content-Encoding" \in sv[r].header.set
         /\ sv[r].header.Vary = "accept-encoding"
         /\ sv[r].header.Etag = ServedAsset.EtagCompressed
    ELSE /\ "Content-Encoding" \notin sv[r].header.set
         /\ sv[r].header.Etag = ServedAsset.Etag

\* C19: a request for a compressible (.html) Asset whose Accept-Encoding contains
\* gzip receives Content-Encoding: gzip, Vary: accept-encoding, EtagCompressed
\* as ETag and the gzip bytes; a request without it receives the plain Etag,
\* no Content-Encoding and the uncompressed bytes.
C19_Representation ==
    \A r \in SReqs :
        sv[r].pc = "done" =>
            /\ RepresentationHeader(r)
            /\ sv[r].body = IF sv[r].acceptsGzip THEN ServedAsset.ContentCompressed
                            ELSE ServedAsset.Content

\* C19 for the header alone.
C19_RepresentationHeader ==
    \A r \in SReqs : sv[r].pc = "done" => RepresentationHeader(r)


\* The nodes of the tree under n, n first and then the nodes under each of
\* its children, from the first child to the last.
RECURSIVE PreOrder(_)
RECURSIVE PreOrderAll(_)
PreOrder(n) == << n >> \o PreOrderAll(n.Child)
PreOrderAll(children) ==
    IF children = << >> THEN << >>
    ELSE PreOrder(Head(children)) \o PreOrderAll(Tail(children))

\* The value of the attribute key of node n, or the empty string.
AttrOf(n, key) ==
    IF \E i \in 1..Len(n.Attr) : n.Attr[i].Key = key
    THEN n.Attr[CHOOSE i \in 1..Len(n.Attr) : n.Attr[i].Key = key].Val
    ELSE << >>

\* The target of a node: the href of a link, the src of an img or a script.
TargetOf(n) ==
    IF n.Data = "link" THEN AttrOf(n, KeyHref) ELSE AttrOf(n, KeySrc)

\* The node is a link whose rel is neither preload nor icon, an img or a
\* script, and its target starts with / and has an extension that is not in
\* AvoidPushing.
Pushed(n) ==
    /\ n.Type = "ElementNode"
    /\ \/ n.Data = "link" /\ ToLower(AttrOf(n, KeyRel)) \notin { Preload, Icon }
       \/ n.Data \in { "img", "script" }
    /\ TargetOf(n) # << >>
    /\ TargetOf(n)[1] = "/"
    /\ Ext(TargetOf(n)) \notin AvoidPushing

\* The document of the specification: a stylesheet link and a preload link
\* in the head and a .png image in the body.
SampleDocument ==
    Document(<< Element("link", << Attribute(KeyRel, Stylesheet), Attribute(KeyHref, << "/", "s", ".", "c", "s", "s" >>) >>, << >>),
                Element("link", << Attribute(KeyRel, Preload), Attribute(KeyHref, << "/", "p", ".", "j", "s" >>) >>, << >>) >>,
             << Element("img", << Attribute(KeySrc, << "/", "a", ".", "p", "n", "g" >>) >>, << >>) >>)

\* C20: queryPushables returns, in depth-first document order and with
\* duplicates, exactly the href of every link whose rel is not preload or
\* icon and the src of every img and script, restricted to the targets that
\* start with / and whose extension is not in AvoidPushing; for the sample
\* document the list is exactly /s.css.
C20_PushList ==
    qp.pc = "done" =>
        LET nodes == SelectSeq(PreOrder(qp.tree), Pushed)
        IN  /\ qp.list = [i \in 1..Len(nodes) |-> TargetOf(nodes[i])]
            /\ qp.tree = SampleDocument => qp.list = << << "/", "s", ".", "c", "s", "s" >> >>

\* C20, its case: the sample document has been walked and a list returned.
C20_Witness ==
    /\ qp.pc = "done"
    /\ qp.tree = SampleDocument
    /\ qp.list # << >>

\* A document that names a target twice has been walked: once in the head
\* and once in an element nested in the body.
C20_Duplicates ==
    /\ qp.pc = "done"
    /\ Len(qp.list) = 3
    /\ qp.list[1] = qp.list[2]
    /\ qp.list[2] = qp.list[3]

\* A target that names another host: it starts with // or has a scheme.
ProtocolRelative(p) == Len(p) >= 2 /\ p[1] = "/" /\ p[2] = "/"
SchemeQualified(p) ==
    \E i \in 1..Len(p) : i + 2 <= Len(p) /\ p[i] = ":" /\ p[i + 1] = "/" /\ p[i + 2] = "/"

\* C21: no entry of a push list is a relative path, a scheme-qualified
\* target or a protocol-relative target.
C21_NoExternal ==
    qp.pc = "done" =>
        \A i \in 1..Len(qp.list) :
            /\ IsAbs(qp.list[i])
            /\ ~SchemeQualified(qp.list[i])
            /\ ~ProtocolRelative(qp.list[i])

\* C21 without the protocol-relative targets: no entry of a push list is a
\* relative path or has a scheme.
C21_NoRelativeNoScheme ==
    qp.pc = "done" =>
        \A i \in 1..Len(qp.list) : IsAbs(qp.list[i]) /\ ~SchemeQualified(qp.list[i])

\* The tags of a header that is a list: its parts between the commas,
\* without the white space around them.
Tags(v) == LET parts == Split(v, ",") IN { TrimString(parts[i]) : i \in 1..Len(parts) }

\* The content has the ETag et, If-Match is present and none of its tags is
\* * or is et, which is not weak.
IfMatchFails(v, et) ==
    /\ et # << >>
    /\ v # << >>
    /\ \A t \in Tags(v) : t # << "*" >> /\ ~(t = et /\ t # << >> /\ t[1] = "\"")

\* The response of ctx is complete and WriteContent did not panic.
Responded == ctx.pc = "done" /\ ~ctx.panic

\* C22: if If-Match is present and is neither * nor contains a tag that
\* strong-matches the current ETag, the final status of the response is
\* 412, whatever If-None-Match and If-Modified-Since the request carries.
C22_IfMatch412 ==
    (Responded /\ IfMatchFails(ctx.R.Header.IfMatch, ctx.set.Etag)) =>
        ctx.Written /\ ctx.W.code = 412

\* C22 for requests whose If-None-Match names no tag of the content and
\* that carry no If-Modified-Since.
C22_IfMatch412Alone ==
    ( /\ Responded
      /\ IfMatchFails(ctx.R.Header.IfMatch, ctx.set.Etag)
      /\ ctx.R.Header.IfNoneMatch = << >>
      /\ ctx.R.Header.IfModifiedSince = << >> ) =>
        ctx.Written /\ ctx.W.code = 412

\* The request of ctx is a GET with a Range that the content of two or more
\* bytes satisfies and with an If-Range, and carries no other condition.
\* The response is complete.
IfRangeEvaluated ==
    /\ Responded
    /\ ctx.R.Method = "GET"
    /\ ctx.R.Header.Range \in { BytesEq \o spec : spec \in
           { << "0", "-", "0" >>, << "1", "-" >>, << "-", "1" >>,
             << "0", "-", "0", ",", "1", "-", "1" >> } }
    /\ ~ctx.content.nil /\ Len(ctx.content.bytes) >= 2
    /\ ctx.R.Header.IfRange # << >>
    /\ ctx.R.Header.IfMatch = << >> /\ ctx.R.Header.IfNoneMatch = << >>
    /\ ctx.R.Header.IfModifiedSince = << >> /\ ctx.R.Header.IfUnmodifiedSince = << >>

\* If-Range is an ETag that is the ETag of the content and not weak.
IfRangeETag(ir, header) == ir # << >> /\ ir[1] = "\"" /\ ir = header.Etag

\* If-Range is a date that is the Last-Modified of the content.
IfRangeDate(ir, header) ==
    /\ ir # << >> /\ ir[1] = "d"
    /\ header.LastModified # << >>
    /\ ParseTime(ir) = ParseTime(header.LastModified)

\* 206 if the If-Range holds, 200 with the full content otherwise.
PartialIf(holds) ==
    /\ ctx.Written
    /\ IF holds THEN ctx.W.code = 206
       ELSE ctx.W.code = 200 /\ ctx.W.body = ctx.content.bytes

\* C23: a GET with a satisfiable Range and an If-Range that is an ETag
\* strong-matching the current ETag, or a date equal to Last-Modified, gets
\* a 206; the Range is ignored (200 with the full content) only when the
\* If-Range ETag does not strong-match or the date differs.
C23_IfRange ==
    IfRangeEvaluated =>
        PartialIf(\/ IfRangeETag(ctx.R.Header.IfRange, ctx.set)
                  \/ IfRangeDate(ctx.R.Header.IfRange, ctx.set))

\* C23 for an If-Range that is a date.
C23_IfRangeByDate ==
    (IfRangeEvaluated /\ ctx.R.Header.IfRange[1] = "d") =>
        PartialIf(IfRangeDate(ctx.R.Header.IfRange, ctx.set))

\* The request of ctx is a GET for the ranges 0-0 and 1-1 of a content of
\* two or more bytes, it carries no condition, and the response is complete.
TwoRangesServed ==
    /\ Responded
    /\ ctx.R.Method = "GET"
    /\ ctx.R.Header.Range = BytesEq \o << "0", "-", "0", ",", "1", "-", "1" >>
    /\ ~ctx.content.nil /\ Len(ctx.content.bytes) >= 2
    /\ ctx.R.Header.IfRange = << >>
    /\ ctx.R.Header.IfMatch = << >> /\ ctx.R.Header.IfNoneMatch = << >>
    /\ ctx.R.Header.IfModifiedSince = << >> /\ ctx.R.Header.IfUnmodifiedSince = << >>

\* The bytes of s are in t, in the order of s.
RECURSIVE Within(_, _)
Within(s, t) ==
    IF s = << >> THEN TRUE
    ELSE IF t = << >> THEN FALSE
    ELSE IF Head(s) = Head(t) THEN Within(Tail(s), Tail(t))
    ELSE Within(s, Tail(t))

\* Status 206 and Content-Type multipart/byteranges.
MultipartStatus ==
    /\ ctx.Written
    /\ ctx.W.code = 206
    /\ ctx.W.header.ContentType = "multipart/byteranges; boundary="

\* C24: a GET with two or more valid ranges gets status 206, Content-Type
\* multipart/byteranges and a body with one part per range in the order of
\* the request, each with exactly the bytes start..end of the content: for
\* the ranges 0-0 and 1-1 the body holds the first and the second byte of
\* the content, in this order.
C24_MultiRange ==
    TwoRangesServed =>
        /\ MultipartStatus
        /\ Within(SubSeq(ctx.content.bytes, 1, 2), ctx.W.body)

\* C24 without the body: status 206 and Content-Type multipart/byteranges.
C24_MultiRangeStatus == TwoRangesServed => MultipartStatus

\* WriteContent has written a response with a body to the GET of ctx.
BodyWritten ==
    /\ Responded
    /\ ctx.R.Method = "GET"
    /\ ~ctx.content.nil
    /\ ctx.err = ""
    /\ ctx.Written
    /\ ctx.W.code \in { 200, 206 }

\* Content-Length of a 200 is the size of the content, which is the body,
\* and Content-Length of a 206 for one range is the length of the body,
\* which is the range.
FullOrSingleLength ==
    /\ ctx.W.code = 200 =>
           /\ ctx.W.header.ContentLength = FormatInt(Len(ctx.content.bytes))
           /\ ctx.W.body = ctx.content.bytes
    /\ (ctx.W.code = 206 /\ ctx.W.header.ContentRange # << >>) =>
           /\ ctx.W.header.ContentLength = FormatInt(Len(ctx.W.body))
           /\ Within(ctx.W.body, ctx.content.bytes)

\* Content-Length of the 206 for the ranges 0-0 and 1-1 is the two bytes of
\* the parts and the bytes a multipart.Writer writes around them.
TwoRangesLength ==
    LET ct == IF ctx.set.ContentType = "" THEN "text/plain; charset=utf-8"
              ELSE ctx.set.ContentType
    IN  ctx.W.header.ContentLength
            = FormatInt(2 + SumFraming(<< [start |-> 0, length |-> 1], [start |-> 1, length |-> 1] >>,
                                       TRUE, ct, Len(ctx.content.bytes)))

\* C25: for every response WriteContent writes with a body the
\* Content-Length header is the number of body bytes produced: the full
\* size, the length of the range, or for several ranges the sum of the
\* bodies of the parts plus the multipart framing.
C25_ContentLength ==
    BodyWritten =>
        /\ FullOrSingleLength
        /\ TwoRangesServed => TwoRangesLength

\* C25 for 200 and for the 206 of one range, but for the suffix with a
\* negative length, whose 206 has no Content-Length header.
C25_ContentLengthOneBody ==
    (BodyWritten /\ ctx.R.Header.Range # BytesEq \o << "-", "-", "1" >>) => FullOrSingleLength

\* C26: WriteContent never panics, whatever the If-Match, If-None-Match,
\* If-Modified-Since, If-Unmodified-Since, If-Range and Range headers are,
\* and always ends in an HTTP status.
C26_NoPanic ==
    ctx.pc = "done" => ~ctx.panic /\ ctx.Written /\ ctx.W.code >= 200

\* C26 for requests whose If-None-Match has no comma.
C26_NoPanicNoComma ==
    ( /\ ctx.pc = "done"
      /\ \A i \in 1..Len(ctx.R.Header.IfNoneMatch) : ctx.R.Header.IfNoneMatch[i] # "," ) =>
        ~ctx.panic /\ ctx.Written /\ ctx.W.code >= 200

\* The keys of the ETag and the conditional headers.
Validators ==
    { CanonicalMIMEHeaderKey(n) : n \in
        { NameEtag,
          << "i", "f", "-", "n", "o", "n", "e", "-", "m", "a", "t", "c", "h" >>,
          << "i", "f", "-", "m", "o", "d", "i", "f", "i", "e", "d", "-", "s", "i", "n", "c", "e" >>,
          << "i", "f", "-", "m", "a", "t", "c", "h" >>,
          << "i", "f", "-", "u", "n", "m", "o", "d", "i", "f", "i", "e", "d", "-", "s", "i", "n", "c", "e" >>,
          << "i", "f", "-", "r", "a", "n", "g", "e" >> } }

\* The keys of the headers of the pushes made so far.
PushedKeys ==
    UNION { IF ph.sent[i].options.nil THEN {} ELSE DOMAIN ph.sent[i].options.Header :
                i \in 1..Len(ph.sent) }

\* C27: the headers passed to every pushed sub-request contain no ETag
\* header and no conditional header (If-None-Match, If-Modified-Since,
\* If-Match, If-Unmodified-Since, If-Range), whatever headers the original
\* request carried.
C27_NoValidators == PushedKeys \cap Validators = {}

\* C27 for ETag, If-Modified-Since and If-Unmodified-Since, the names that
\* hold if or modified in lower case.
C27_NoEtagNoDates ==
    PushedKeys \cap { CanonicalMIMEHeaderKey(n) : n \in
                        { NameEtag,
                          << "i", "f", "-", "m", "o", "d", "i", "f", "i", "e", "d", "-", "s", "i", "n", "c", "e" >>,
                          << "i", "f", "-", "u", "n", "m", "o", "d", "i", "f", "i", "e", "d", "-", "s", "i", "n", "c", "e" >> } } = {}

\* The path lies inside the cache directory: it is Dir followed by a slash
\* and a name.
InsideDir(p) == HasPrefix(p, Dir \o << "/" >>) /\ Len(p) > Len(Dir) + 1

\* C28: for every name passed to Get, Gen, Del or ServeFile, names with ..
\* segments, relative names and names that begin with the characters of Dir
\* included, the normalized cache key and the file that is read lie inside
\* the cache directory Dir.
C28_InsideDir ==
    /\ \A k \in DOMAIN store : InsideDir(k)
    /\ \A p \in Procs : rq[p].pc \in { "read", "hash", "watch", "set" } => InsideDir(rq[p].name)

\* C28 for the relative name a of the page Dir/a.html.
C28_InsideDirPage ==
    \A p \in Procs :
        (rq[p].pc \in { "read", "hash", "watch", "set" } /\ rq[p].arg = NPage) =>
            InsideDir(rq[p].name)

\* The step with which the watcher loop is done with an event: a.Update
\* returns. No other event is waiting and no request handler is inside the
\* cache.
EventHandled ==
    /\ rq[WProc].op = "Update"
    /\ rq[WProc].pc # "done"
    /\ rq'[WProc].pc = "done"
    /\ events' = << >>
    /\ \A p \in Reqs2 : rq'[p].pc = "done"

\* The entry of the path of the event after the step: an Asset of the
\* content the file has now if the file is on disk, no entry if it is not.
EntryFollowsFile ==
    LET k == rq[WProc].name
    IN  IF k \in FilePaths /\ ~files'[k].gone
        THEN /\ k \in DOMAIN store'
             /\ assets'[store'[k]].Content = FileBytes(k, files'[k].ver)
        ELSE k \notin DOMAIN store'

\* C29: after the watcher loop has handled an event for a cached path, the
\* old entry has been replaced by a freshly generated Asset if the file
\* still exists, and the entry is absent if the file was removed.
C29_WatcherUpdates == [][EventHandled => EntryFollowsFile]_vars

\* C29 for the events during whose handling a.Update did not find an entry
\* that another caller had stored after the delete.
C29_WatcherUpdatesMiss ==
    [][(EventHandled /\ ~(rq[WProc].pc = "get" /\ rq'[WProc].found)) => EntryFollowsFile]_vars

\* The Get of the page by caller p has returned.
Returned(p) == rq[p].op = "Get" /\ rq[p].arg = NPage /\ rq[p].pc = "done"

\* C30: if several Get calls for the same missing path run concurrently on
\* an unchanged file, every caller gets found = true with a complete Asset,
\* the Assets have identical content and ETag, and when all have returned
\* the store holds exactly one entry for the key.
C30_ConcurrentGets ==
    /\ \A p \in Reqs2 :
           Returned(p) => rq[p].found /\ FullyConstructed(assets[rq[p].ret])
    /\ \A p, q \in Reqs2 :
           (Returned(p) /\ Returned(q)) =>
               /\ assets[rq[p].ret].Content = assets[rq[q].ret].Content
               /\ assets[rq[p].ret].Etag = assets[rq[q].ret].Etag
    /\ (\A p \in Reqs2 : Returned(p)) => DOMAIN store = { PrepPath(Dir, NPage) }

\* C30, its case: both callers ran their own generation, at different
\* times, and have returned.
C30_Witness ==
    /\ \A p \in Reqs2 : Returned(p)
    /\ rq["r1"].ret # rq["r2"].ret
    /\ assets[rq["r1"].ret].Loaded # assets[rq["r2"].ret].Loaded

\* The Get of caller p has returned found = true.
GotAsset(p) == rq[p].op = "Get" /\ rq[p].pc = "done" /\ rq[p].found

\* Caller p, whose Get of a name has returned found = true, calls Get with
\* the same name again.
GetsAgain(p) ==
    /\ GotAsset(p)
    /\ rq'[p].op = "Get"
    /\ rq'[p].arg = rq[p].arg
    /\ \A q \in Procs \ { p } : rq'[q] = rq[q]
    /\ now' = now

\* C31: after a successful Get(name) the store holds the Asset under the key
\* that Get looks up, PrepPath(Dir, name), and a second Get(name) returns an
\* Asset without running generation, also when name resolves to a directory.
C31_CachedUnderKey ==
    /\ [](\A p \in Reqs2 : GotAsset(p) => PrepPath(Dir, rq[p].arg) \in DOMAIN store)
    /\ [][\A p \in Reqs2 : GetsAgain(p) => rq'[p].pc = "done" /\ rq'[p].found]_vars

\* C31 for the name of a page.
C31_CachedUnderKeyPage ==
    /\ [](\A p \in Reqs2 :
             (GotAsset(p) /\ rq[p].arg = NPage) => PrepPath(Dir, rq[p].arg) \in DOMAIN store)
    /\ [][\A p \in Reqs2 :
             (GetsAgain(p) /\ rq[p].arg = NPage) => rq'[p].pc = "done" /\ rq'[p].found]_vars

(***************************************************************************)
(* C32: stored keys and the watcher                                        *)
(***************************************************************************)

\* No caller is inside Get, Gen, Update or Del.
Quiet == \A p \in Procs : rq[p].pc = "done"

\* C32: with Watch enabled, whenever no Gen and no Del is in progress every
\* key of the store is registered with the watcher, in every interleaving of
\* a Del with a Get that regenerates the same key.
C32_StoredWatched == (Watch /\ Quiet) => DOMAIN store \subseteq watched

(***************************************************************************)
(* C33: one status for a request                                           *)
(***************************************************************************)

\* The handler calls WriteContent once more on a Ctx that is written.
WriteAgain(content) ==
    /\ ctx.pc \in { "done", "again" }
    /\ ctx.Written
    /\ ctx' = [WriteContent(ctx, content) EXCEPT !.pc = "again"]
    /\ UNCHANGED << cacheVars, rd, sv, qp, keys, ph, pipe, prev, pq >>

NextWritten ==
    \/ \E r \in Requests : ServeHTTP(r)
    \/ \E header \in HandlerHeaders, content \in Contents : Route(header, content)
    \/ ErrorResponse
    \/ \E content \in Contents : WriteAgain(content)

\* Requests served by a handler that calls WriteContent and may call it
\* again on the written Ctx.
SpecWritten == Init /\ [][NextWritten]_vars

\* The statuses of WriteContent for a Ctx that enters with 200 and content.
ContentStatuses == { 200, 206, 304, 412, 416 }

\* The request is through ServeHTTP with content that was not nil.
Answered == ctx.pc \in { "done", "again" } /\ ~ctx.content.nil

\* Within one request, what was written to c.W stays as it is.
WrittenOnce == (ctx.Written /\ ctx'.pc # "route") => ctx'.W = ctx.W /\ ctx'.Written

\* C33: a request that enters WriteContent with status 200 and content that
\* is not nil gets exactly one status out of 200, 206, 304, 412 and 416, the
\* status line is written at most once, and a further WriteContent on the
\* written Ctx writes nothing.
C33_OneStatus ==
    /\ [](Answered => ctx.W.code \in ContentStatuses)
    /\ [][WrittenOnce]_vars

\* The same for requests on which WriteContent does not panic.
C33_OneStatusNoPanic ==
    /\ []((Answered /\ ~ctx.panic) => ctx.W.code \in ContentStatuses)
    /\ [][WrittenOnce]_vars

\* A further WriteContent has returned on a Ctx that was written with one of
\* the statuses.
C33_Witness ==
    ctx.pc = "again" /\ ~ctx.content.nil /\ ctx.W.code = 206 /\ ctx.W.body # << >>

(***************************************************************************)
(* C34: If-Modified-Since                                                  *)
(***************************************************************************)

\* The If-None-Match of the request names neither the star nor the ETag the
\* handler has set.
NoneMatchFails ==
    /\ ctx.R.Header.IfNoneMatch # << >>
    /\ ~Contains(ctx.R.Header.IfNoneMatch, << "*" >>)
    /\ ctx.set.Etag = << >> \/ ~Contains(ctx.R.Header.IfNoneMatch, ctx.set.Etag)

\* If-Modified-Since parses and the Last-Modified the handler has set is not
\* later, in seconds; without a Last-Modified header the zero time counts.
NotModifiedSince ==
    /\ ParseTime(ctx.R.Header.IfModifiedSince) # 0
    /\ ParseTime(ctx.set.LastModified) <= ParseTime(ctx.R.Header.IfModifiedSince)

\* C34: If-Modified-Since is evaluated only when If-None-Match is absent: a
\* request with an If-None-Match that does not match never gets 304, and a
\* request without If-None-Match gets 304 exactly when If-Modified-Since
\* parses and Last-Modified is not later than it at one-second granularity.
C34_ModifiedSince ==
    ctx.pc = "done" =>
        /\ NoneMatchFails => ctx.W.code # 304
        /\ ctx.R.Header.IfNoneMatch = << >> => (ctx.W.code = 304 <=> NotModifiedSince)

\* C34, its case: a request whose If-None-Match does not match and whose
\* If-Modified-Since is the Last-Modified of the content got the content.
C34_Witness ==
    /\ ctx.pc = "done"
    /\ NoneMatchFails
    /\ NotModifiedSince
    /\ ctx.set.LastModified # << >>
    /\ ctx.W.code = 200
    /\ ctx.W.body # << >>

(***************************************************************************)
(* C35: malformed Range headers                                            *)
(***************************************************************************)

\* The request is through ServeHTTP; it had Range and no other condition,
\* and the handler passed content.
RangeOnly ==
    /\ ctx.pc = "done"
    /\ ~ctx.content.nil
    /\ ctx.R.Header = [NoRequestHeader EXCEPT !.Range = ctx.R.Header.Range]

\* C35: every malformed Range header (no bytes= prefix, a specifier without
\* "-", positions that are not numbers or are negative, an end before the
\* start) is answered 416 and never 200 or 206.
C35_Malformed416 ==
    (RangeOnly /\ ctx.R.Header.Range \in MalformedRanges \cup LenientRanges) =>
        ctx.W.code = 416

\* The same without the negative suffix and without the lists whose end
\* before the start comes with a start behind the content.
C35_Malformed416Strict ==
    (RangeOnly /\ ctx.R.Header.Range \in MalformedRanges) => ctx.W.code = 416

(***************************************************************************)
(* C36: the single range of a 206                                          *)
(***************************************************************************)

\* The answer is a 206 that is not a multipart.
SingleRange ==
    /\ ctx.pc = "done"
    /\ ~ctx.content.nil
    /\ ctx.W.code = 206
    /\ ctx.W.header.ContentType = ctx.set.ContentType \/ ctx.set.ContentType = ""
    /\ ctx.W.header.ContentType # "multipart/byteranges; boundary="

\* Content-Range is bytes s-e/size with 0 <= s <= e < size, and
\* Content-Length is e - s + 1.
RangeInside ==
    LET size == Len(ctx.content.bytes)
    IN  \E s \in 0..(size - 1), e \in 0..(size - 1) :
            /\ s <= e
            /\ ctx.W.header.ContentRange = contentRange([start |-> s, length |-> e - s + 1], size)
            /\ ctx.W.header.ContentLength = FormatInt(e - s + 1)

\* C36: a 206 for a single range has Content-Range: bytes s-e/size with
\* 0 <= s <= e < size and Content-Length e - s + 1, also for the suffixes -0
\* and -N with N above the size and for an end behind the size.
C36_SingleRange == SingleRange => RangeInside

\* The same for content that is not empty and ranges other than suffixes of
\* no byte or of a negative length.
C36_SingleRangeSome ==
    ( /\ SingleRange
      /\ ctx.content.bytes # << >>
      /\ ctx.R.Header.Range \notin { BytesEq \o << "-", "0" >>, BytesEq \o << "-", "-", "1" >> } )
        => RangeInside

(***************************************************************************)
(* C37: the producer goroutine of a multi-range response                   *)
(* io.Pipe has no buffer: a Write waits until a Read has taken its bytes   *)
(* or the pipe is closed, and on a closed pipe Read and Write return       *)
(* io.ErrClosedPipe at once.                                               *)
(***************************************************************************)

\* The Ctx w was written with the multipart of several ranges.
Multipart(w) ==
    w.Written /\ w.W.code = 206
        /\ w.W.header.ContentType = "multipart/byteranges; boundary="

\* The response WriteContent gives for c and content is the multipart of
\* several ranges.
Piped(c, content) == Multipart(WriteContent(c, content))

\* The GET requests with a list of ranges and no condition.
RangeRequests ==
    { r \in Requests : /\ r.Method = "GET"
                        /\ Contains(r.Header.Range, << "," >>)
                        /\ r.Header = [NoRequestHeader EXCEPT !.Range = r.Header.Range] }

\* WriteContent for several ranges up to its return statement: the pipe is
\* made, pr.Close is deferred and the producer goroutine is started. The
\* fields of the Ctx that WriteContent sets are written with the deferred
\* function.
Spawn(header, content) ==
    /\ ctx.pc = "route"
    /\ pipe.prod \in { "off", "exit" }
    /\ Piped([ctx EXCEPT !.H = header, !.content = content, !.set = header], content)
    /\ ctx' = [ctx EXCEPT !.H = header, !.content = content, !.set = header, !.pc = "pipe"]
    /\ pipe' = [ main |-> "spawned", prod |-> "part", done |-> FALSE, waited |-> FALSE ]
    /\ UNCHANGED << cacheVars, rd, sv, qp, keys, ph, prev, pq >>

\* WriteContent for a response that is not the multipart of several ranges.
RouteWhole(header, content) ==
    /\ ~Piped([ctx EXCEPT !.H = header, !.content = content, !.set = header], content)
    /\ Route(header, content)

\* The deferred pr.Close(): deferred last, it runs first.
PrCloseKept ==
    /\ pipe.main = "spawned"
    /\ pipe' = [pipe EXCEPT !.main = "closed"]
    /\ UNCHANGED << cacheVars, rd, sv, ctx, qp, keys, ph, prev, pq >>

PrClose ==
    /\ pipe.main = "spawned"
    /\ pipe' = [pipe EXCEPT !.main = "closed", !.done = TRUE]
    /\ UNCHANGED << cacheVars, rd, sv, ctx, qp, keys, ph, prev, pq >>

\* The deferred function that writes: the header, the status line and
\* io.CopyN from the pipe, whose Read returns io.ErrClosedPipe; WriteContent
\* has returned.
DeferredWrite ==
    /\ pipe.main = "closed"
    /\ ctx' = [WriteContent(ctx, ctx.content) EXCEPT !.pc = "done"]
    /\ pipe' = [pipe EXCEPT !.main = "returned"]
    /\ UNCHANGED << cacheVars, rd, sv, qp, keys, ph, prev, pq >>

\* The producer: mw.CreatePart(ra.header(ct, size)) writes the head of the
\* first part to pw. On the closed pipe the Write fails, else it waits.
ProdCreatePart ==
    /\ pipe.prod = "part"
    /\ pipe' = IF pipe.done THEN [pipe EXCEPT !.prod = "failed"]
                ELSE [pipe EXCEPT !.prod = "blocked", !.waited = TRUE]
    /\ UNCHANGED << cacheVars, rd, sv, ctx, qp, keys, ph, prev, pq >>

\* The Write that waits returns io.ErrClosedPipe when the pipe is closed.
ProdWake ==
    /\ pipe.prod = "blocked"
    /\ pipe.done
    /\ pipe' = [pipe EXCEPT !.prod = "failed"]
    /\ UNCHANGED << cacheVars, rd, sv, ctx, qp, keys, ph, prev, pq >>

\* The producer: pw.CloseWithError(err); return.
ProdCloseWithError ==
    /\ pipe.prod = "failed"
    /\ pipe' = [pipe EXCEPT !.prod = "exit"]
    /\ UNCHANGED << cacheVars, rd, sv, ctx, qp, keys, ph, prev, pq >>

Producer == ProdCreatePart \/ ProdWake \/ ProdCloseWithError

NextPipe ==
    \/ \E r \in RangeRequests : ServeHTTP(r)
    \/ \E header \in HandlerHeaders, content \in Contents : Spawn(header, content)
    \/ \E header \in HandlerHeaders, content \in Contents : RouteWhole(header, content)
    \/ ErrorResponse
    \/ PrClose
    \/ DeferredWrite
    \/ ProdCreatePart
    \/ ProdWake
    \/ ProdCloseWithError

\* Range requests served one after another, with the producer goroutines of
\* the multi-range responses. A handler that has reached its return runs its
\* deferred calls, and the scheduler runs a goroutine that can take a step.
SpecPipe ==
    /\ Init /\ [][NextPipe]_vars
    /\ WF_vars(PrClose) /\ WF_vars(Producer)

\* The producer goroutine is running.
Producing == pipe.prod \in { "part", "blocked", "failed" }

\* C37: the producer goroutine of every multi-range response terminates in
\* the end, and once WriteContent has returned no goroutine waits on the
\* pipe: a producer that is not through can take a step.
C37_ProducerEnds ==
    /\ Producing ~> pipe.prod = "exit"
    /\ []((pipe.main = "returned" /\ Producing) => ENABLED Producer)

\* C37, its case: the producer waited in a Write on the pipe, WriteContent
\* has returned with the 206 written, and the producer is through.
C37_Witness ==
    /\ pipe.main = "returned"
    /\ pipe.waited
    /\ pipe.prod = "exit"
    /\ ctx.pc = "done" /\ ctx.W.code = 206

(***************************************************************************)
(* C38: the validators of the stored Assets                                *)
(***************************************************************************)

\* The Assets in the store.
Stored == { assets[store[k]] : k \in DOMAIN store }

\* C38: every Asset in the store has Etag = the digest of its own Content
\* and, when compressed, EtagCompressed = the digest of its own
\* ContentCompressed, also when the file is rewritten while Gen is running.
C38_EtagOfContent ==
    \A a \in Stored :
        /\ a.Etag = EtagOf(a.Content)
        /\ a.Compressed => a.EtagCompressed = EtagOf(a.ContentCompressed)

\* The same for the compressed representation alone.
C38_EtagOfCompressed ==
    \A a \in Stored : a.Compressed => a.EtagCompressed = EtagOf(a.ContentCompressed)

(***************************************************************************)
(* C39: PrepPath applied to its own result                                 *)
(***************************************************************************)

\* The longest file argument of the model.
MaxPath == 3

\* The sequences over S of length n.
RECURSIVE SeqsOf(_, _)
SeqsOf(S, n) ==
    IF n = 0 THEN { << >> }
    ELSE { Append(s, ch) : s \in SeqsOf(S, n - 1), ch \in S }

\* The file arguments: every path of at most MaxPath characters out of the
\* slash, the dot, the letter of Dir and another letter.
PrepInputs == UNION { SeqsOf({ "/", ".", "d", "x" }, n) : n \in 0..MaxPath }

\* The cache after construction and a file argument for PrepPath.
InitPrep ==
    /\ now = 1
    /\ files = [p \in FilePaths |-> [ver |-> 0, mtime |-> 1, gone |-> FALSE]]
    /\ assets = << >>
    /\ store = << >>
    /\ watched = {}
    /\ events = << >>
    /\ tickRunning = TRUE
    /\ tickC = 0
    /\ closed = 0
    /\ sw = SwIdle
    /\ rq = [p \in Procs |-> Idle]
    /\ rd = [plain |-> 0, gz |-> 0]
    /\ sv = [r \in SReqs |-> SvIdle]
    /\ ctx = [NewCtx(Request("GET", FALSE, NoRequestHeader)) EXCEPT !.pc = "idle"]
    /\ qp = NoDocument
    /\ keys = [name \in Paths |-> PrepPath(Dir, name)]
    /\ ph = NoPush
    /\ pipe = NoPipe
    /\ prev = NoPrev
    /\ pq \in { [ NoPrep EXCEPT !.pc = "file", !.file = x ] : x \in PrepInputs }

\* name = PrepPath(a.Dir, name)
PrepOnce ==
    /\ pq.pc = "file"
    /\ pq' = [pq EXCEPT !.pc = "once", !.once = PrepPath(Dir, pq.file)]
    /\ UNCHANGED << cacheVars, rd, sv, ctx, qp, keys, ph, pipe, prev >>

\* name = PrepPath(a.Dir, name) on a name that PrepPath returned, as in the
\* Gen that Get calls and in the Del of the sweeper.
PrepTwice ==
    /\ pq.pc = "once"
    /\ pq' = [pq EXCEPT !.pc = "twice", !.twice = PrepPath(Dir, pq.once)]
    /\ UNCHANGED << cacheVars, rd, sv, ctx, qp, keys, ph, pipe, prev >>

NextPrep == PrepOnce \/ PrepTwice

\* PrepPath applied to a file argument and to its result.
SpecPrep == InitPrep /\ [][NextPrep]_vars

\* C39: PrepPath is idempotent and its result has an extension that is not
\* empty: PrepPath(Dir, PrepPath(Dir, x)) = PrepPath(Dir, x) for every x.
C39_Idempotent ==
    /\ pq.pc \in { "once", "twice" } => Ext(pq.once) # << >>
    /\ pq.pc = "twice" => pq.twice = pq.once /\ Ext(pq.twice) # << >>

\* The same for the arguments whose result lies inside Dir.
C39_IdempotentInside ==
    /\ pq.pc \in { "once", "twice" } => Ext(pq.once) # << >>
    /\ (pq.pc = "twice" /\ InsideDir(pq.once)) => pq.twice = pq.once /\ Ext(pq.twice) # << >>

(***************************************************************************)
(* C40: SetExpiryCheckInterval on a cache whose ticker is running          *)
(***************************************************************************)

\* SetExpiryCheckInterval: a.Ticker.Stop(), a.Ticker = time.NewTicker and a
\* new goroutine that ranges over the channel of the new ticker. The
\* goroutine started before stays in its range over the channel of the
\* stopped ticker, with the tick that channel holds and the pass it is in.
\* The model has one call after the call in Make.
SetExpiryCheckInterval ==
    /\ ~prev.set
    /\ prev' = [ set |-> TRUE, tickC |-> tickC, sw |-> sw ]
    /\ tickRunning' = TRUE
    /\ tickC' = 0
    /\ sw' = SwIdle
    /\ UNCHANGED << now, files, store, watched, events, closed, rq,
                    rd, sv, ctx, qp, keys, ph, pipe, pq >>
    /\ assets' = Collect(assets)

\* The earlier goroutine goes on with the entries todo, or waits for a tick.
PrevNext(todo) ==
    IF todo = {} THEN SwIdle ELSE [prev.sw EXCEPT !.pc = "iter", !.todo = todo]

\* The earlier goroutine receives the tick left in the channel of the
\* stopped ticker and starts iterating a.Cache.
PrevRecv ==
    /\ prev.set
    /\ prev.sw.pc = "idle"
    /\ prev.tickC # 0
    /\ prev' = [prev EXCEPT !.tickC = 0,
                             !.sw = IF DOMAIN store = {} THEN SwIdle
                                    ELSE [ SwIdle EXCEPT !.now = prev.tickC, !.pc = "iter",
                                                         !.todo = DOMAIN store ]]
    /\ UNCHANGED << now, files, store, watched, events, tickRunning, tickC, closed, sw, rq,
                    rd, sv, ctx, qp, keys, ph, pipe, pq >>
    /\ assets' = Collect(assets)

\* The earlier goroutine takes the next entry and tests its expiry.
PrevVisit ==
    /\ prev.set
    /\ prev.sw.pc = "iter"
    /\ \E k \in prev.sw.todo :
       LET rest == prev.sw.todo \ {k}
       IN  prev' = [prev EXCEPT !.sw =
                       IF k \in DOMAIN store /\ assets[store[k]].Loaded + Expire < prev.sw.now
                       THEN [prev.sw EXCEPT !.pc = "del", !.key = k, !.todo = rest]
                       ELSE PrevNext(rest)]
    /\ UNCHANGED << now, files, store, watched, events, tickRunning, tickC, closed, sw, rq,
                    rd, sv, ctx, qp, keys, ph, pipe, pq >>
    /\ assets' = Collect(assets)

\* The earlier goroutine's a.Del(key): PrepPath and a.Cache.Del.
PrevDelCache ==
    /\ prev.set
    /\ prev.sw.pc = "del"
    /\ LET k == Key(prev.sw.key)
       IN  /\ store' = MapDel(store, k)
           /\ prev' = [prev EXCEPT !.sw = IF Watch THEN [prev.sw EXCEPT !.key = k, !.pc = "unwatch"]
                                          ELSE PrevNext(prev.sw.todo)]
    /\ UNCHANGED << now, files, watched, events, tickRunning, tickC, closed, sw, rq,
                    rd, sv, ctx, qp, keys, ph, pipe, pq >>
    /\ assets' = Collect(assets)

\* The earlier goroutine's a.Del(key): a.Watcher.Remove.
PrevDelWatch ==
    /\ prev.set
    /\ prev.sw.pc = "unwatch"
    /\ watched' = watched \ { prev.sw.key }
    /\ prev' = [prev EXCEPT !.sw = PrevNext(prev.sw.todo)]
    /\ UNCHANGED << now, files, store, events, tickRunning, tickC, closed, sw, rq,
                    rd, sv, ctx, qp, keys, ph, pipe, pq >>
    /\ assets' = Collect(assets)

NextInterval ==
    \/ Advance
    \/ TickFire
    \/ \E p \in Reqs : Gen(p, NPage)
    \/ \E p \in Reqs : GenRead(p)
    \/ \E p \in Reqs : GenHash(p)
    \/ \E p \in Reqs : GenWatch(p)
    \/ \E p \in Reqs : GenSet(p)
    \/ SetExpiryCheckInterval
    \/ SweepRecv
    \/ SweepVisit
    \/ SweepDelCache
    \/ SweepDelWatch
    \/ PrevRecv
    \/ PrevVisit
    \/ PrevDelCache
    \/ PrevDelWatch

\* The cache with its ticker and sweeper, a caller of Gen and a caller of
\* SetExpiryCheckInterval.
SpecInterval == Init /\ [][NextInterval]_vars

\* C40: after SetExpiryCheckInterval the previous ticker is stopped and
\* only the new ticker drives sweeps: no pass starts from the channel of the
\* stopped ticker, the stopped ticker sends no tick, and a pass of the
\* current sweeper takes one tick of the current ticker.
C40_OnlyNewTicker ==
    [][ /\ ~PrevRecv
        /\ (prev.set /\ prev.tickC = 0) => prev'.tickC = 0
        /\ SweepRecv => tickC # 0 /\ tickC' = 0 ]_vars

\* The same without the tick that was in the channel when the ticker was
\* stopped.
C40_OnlyNewTickerSent ==
    [][ /\ (prev.set /\ prev.tickC = 0) => prev'.tickC = 0
        /\ SweepRecv => tickC # 0 /\ tickC' = 0 ]_vars

====
